---- MODULE Spec2Model ----
(***************************************************************************)
(* Model of the Unified Python Terminal (terminal.py, app.py).             *)
(*                                                                         *)
(* A Python str is modelled as a sequence of one-character strings, so     *)
(* that lower(), strip(), split(), re.match and the string formatting of   *)
(* the program are computed character by character.  The file system is    *)
(* a tree of directories and regular files (POSIX semantics, no links, no  *)
(* permissions); the history file is one regular file of that tree.        *)
(***************************************************************************)
EXTENDS Integers, Sequences, FiniteSets, TLC

(***************************************************************************)
(* Python str primitives                                                   *)
(***************************************************************************)

\* str.isspace for one character (ASCII white space)
IsSpace(c) == c \in {" ", "\t", "\n", "\r", "\f"}

UpperToLower ==
  [c \in {"A","B","C","D","E","F","G","H","I","J","K","L","M","N","O","P","Q",
          "R","S","T","U","V","W","X","Y","Z"} |->
     CASE c = "A" -> "a" [] c = "B" -> "b" [] c = "C" -> "c" [] c = "D" -> "d"
       [] c = "E" -> "e" [] c = "F" -> "f" [] c = "G" -> "g" [] c = "H" -> "h"
       [] c = "I" -> "i" [] c = "J" -> "j" [] c = "K" -> "k" [] c = "L" -> "l"
       [] c = "M" -> "m" [] c = "N" -> "n" [] c = "O" -> "o" [] c = "P" -> "p"
       [] c = "Q" -> "q" [] c = "R" -> "r" [] c = "S" -> "s" [] c = "T" -> "t"
       [] c = "U" -> "u" [] c = "V" -> "v" [] c = "W" -> "w" [] c = "X" -> "x"
       [] c = "Y" -> "y" [] c = "Z" -> "z"]

LowerChar(c) == IF c \in DOMAIN UpperToLower THEN UpperToLower[c] ELSE c

\* str.lower()
Lower(s) == [i \in 1..Len(s) |-> LowerChar(s[i])]

Take(s, n) == SubSeq(s, 1, n)
Drop(s, n) == SubSeq(s, n + 1, Len(s))

RECURSIVE LStrip(_)
LStrip(s) == IF s # <<>> /\ IsSpace(Head(s)) THEN LStrip(Tail(s)) ELSE s

RECURSIVE RStrip(_)
RStrip(s) ==
  IF s # <<>> /\ IsSpace(s[Len(s)]) THEN RStrip(Take(s, Len(s) - 1)) ELSE s

\* str.strip()
Strip(s) == RStrip(LStrip(s))

\* length of the longest prefix of s without white space
RECURSIVE RunLen(_)
RunLen(s) == IF s = <<>> \/ IsSpace(Head(s)) THEN 0 ELSE 1 + RunLen(Tail(s))

\* str.split(): the maximal runs of non-space characters, in order
RECURSIVE Split(_)
Split(s) ==
  LET t == LStrip(s)
      n == RunLen(t)
  IN  IF t = <<>> THEN <<>> ELSE <<Take(t, n)>> \o Split(Drop(t, n))

\* str.startswith
StartsWith(s, p) == Len(p) <= Len(s) /\ Take(s, Len(p)) = p

\* sep.join(parts)
RECURSIVE Join(_, _)
Join(parts, sep) ==
  IF parts = <<>> THEN <<>>
  ELSE IF Len(parts) = 1 THEN parts[1]
  ELSE parts[1] \o sep \o Join(Tail(parts), sep)

\* str.find(p): the least 0-based index at which p occurs in s, or -1
RECURSIVE FindFrom(_, _, _)
FindFrom(s, p, i) ==
  IF i + Len(p) > Len(s) THEN -1
  ELSE IF SubSeq(s, i + 1, i + Len(p)) = p THEN i
  ELSE FindFrom(s, p, i + 1)

Find(s, p) == FindFrom(s, p, 0)

\* p in s
Contains(s, p) == Find(s, p) >= 0

\* s.split(sep) for a non-empty separator: every piece between occurrences
RECURSIVE SplitOn(_, _)
SplitOn(s, sep) ==
  LET i == Find(s, sep)
  IN  IF i < 0 THEN <<s>>
      ELSE <<Take(s, i)>> \o SplitOn(Drop(s, i + Len(sep)), sep)

(***************************************************************************)
(* Phrase patterns (nlp_patterns) and parse_nlp                            *)
(***************************************************************************)

\* an item of a regular expression: literal text, or the group (\S+)
Lit(s) == [k |-> "lit", s |-> s, i |-> 0]
Grp == [k |-> "grp", s |-> <<>>, i |-> 0]
\* an item of a template: literal text, or the placeholder {i}
Arg(n) == [k |-> "arg", s |-> <<>>, i |-> n]

\* the dict of __init__, in insertion order (the order dict.items() yields)
nlp_patterns == <<
  [re |-> <<Lit(<<"c","r","e","a","t","e"," ","f","i","l","e"," ">>), Grp>>,  tpl |-> <<Lit(<<"t","o","u","c","h"," ">>), Arg(0)>>],
  [re |-> <<Lit(<<"c","r","e","a","t","e"," ","f","o","l","d","e","r"," ">>), Grp>>, tpl |-> <<Lit(<<"m","k","d","i","r"," ">>), Arg(0)>>],
  [re |-> <<Lit(<<"d","e","l","e","t","e"," ","f","i","l","e"," ">>), Grp>>,  tpl |-> <<Lit(<<"r","m"," ">>), Arg(0)>>],
  [re |-> <<Lit(<<"r","e","m","o","v","e"," ","f","i","l","e"," ">>), Grp>>,  tpl |-> <<Lit(<<"r","m"," ">>), Arg(0)>>],
  [re |-> <<Lit(<<"r","e","n","a","m","e"," ","f","i","l","e"," ">>), Grp, Lit(<<" ","t","o"," ">>), Grp>>,
   tpl |-> <<Lit(<<"m","v"," ">>), Arg(0), Lit(<<" ">>), Arg(1)>>],
  [re |-> <<Lit(<<"m","o","v","e"," ">>), Grp, Lit(<<" ","t","o"," ">>), Grp>>,
   tpl |-> <<Lit(<<"m","v"," ">>), Arg(0), Lit(<<" ">>), Arg(1)>>],
  [re |-> <<Lit(<<"c","o","p","y"," ">>), Grp, Lit(<<" ","t","o"," ">>), Grp>>,
   tpl |-> <<Lit(<<"c","p"," ">>), Arg(0), Lit(<<" ">>), Arg(1)>>],
  [re |-> <<Lit(<<"s","h","o","w"," ","c","o","n","t","e","n","t","s"," ","o","f"," ">>), Grp>>, tpl |-> <<Lit(<<"c","a","t"," ">>), Arg(0)>>],
  [re |-> <<Lit(<<"l","i","s","t"," ","d","i","r","e","c","t","o","r","y"," ">>), Grp>>, tpl |-> <<Lit(<<"l","s"," ">>), Arg(0)>>],
  [re |-> <<Lit(<<"g","o"," ","t","o"," ","d","i","r","e","c","t","o","r","y"," ">>), Grp>>, tpl |-> <<Lit(<<"c","d"," ">>), Arg(0)>>],
  [re |-> <<Lit(<<"c","u","r","r","e","n","t"," ","d","i","r","e","c","t","o","r","y">>)>>,  tpl |-> <<Lit(<<"p","w","d">>)>>],
  [re |-> <<Lit(<<"c","l","e","a","r"," ","s","c","r","e","e","n">>)>>,       tpl |-> <<Lit(<<"c","l","e","a","r">>)>>],
  [re |-> <<Lit(<<"e","x","i","t">>)>>,               tpl |-> <<Lit(<<"e","x","i","t">>)>>],
  [re |-> <<Lit(<<"q","u","i","t">>)>>,               tpl |-> <<Lit(<<"q","u","i","t">>)>>],
  [re |-> <<Lit(<<"h","e","l","p">>)>>,               tpl |-> <<Lit(<<"h","e","l","p">>)>>] >>

NoMatch == [ok |-> FALSE, groups |-> <<>>]

\* re.match(pattern, s): the pattern matched at the start of s (s need not
\* be consumed), a group taking the longest run that lets the rest match
RECURSIVE ReMatchFrom(_, _, _)
RECURSIVE ReGroup(_, _, _, _)
ReMatchFrom(re, s, groups) ==
  IF re = <<>> THEN [ok |-> TRUE, groups |-> groups]
  ELSE IF Head(re).k = "lit"
       THEN IF StartsWith(s, Head(re).s)
            THEN ReMatchFrom(Tail(re), Drop(s, Len(Head(re).s)), groups)
            ELSE NoMatch
       ELSE ReGroup(re, s, groups, RunLen(s))

ReGroup(re, s, groups, n) ==
  IF n = 0 THEN NoMatch
  ELSE LET r == ReMatchFrom(Tail(re), Drop(s, n), Append(groups, Take(s, n)))
       IN  IF r.ok THEN r ELSE ReGroup(re, s, groups, n - 1)

ReMatch(re, s) == ReMatchFrom(re, s, <<>>)

\* template.format(*groups)
RECURSIVE Format(_, _)
Format(tpl, groups) ==
  IF tpl = <<>> THEN <<>>
  ELSE (IF Head(tpl).k = "arg" THEN groups[Head(tpl).i + 1] ELSE Head(tpl).s)
       \o Format(Tail(tpl), groups)

\* the loop of parse_nlp from pattern number i on
RECURSIVE ParseFrom(_, _, _, _)
ParseFrom(patterns, i, cmd, command) ==
  IF i > Len(patterns) THEN command
  ELSE LET m == ReMatch(patterns[i].re, cmd)
       IN  IF m.ok THEN Format(patterns[i].tpl, m.groups)
           ELSE ParseFrom(patterns, i + 1, cmd, command)

\* a variant of parse_nlp that returns the trimmed input when no pattern
\* matches; C7 tells it from parse_nlp
parse_nlp_trimmed(command) ==
  ParseFrom(nlp_patterns, 1, Lower(Strip(command)), Strip(command))

\* a variant of parse_nlp that returns the working copy (lowercased and
\* trimmed) when no pattern matches; C9 tells it from parse_nlp
parse_nlp_folded(command) ==
  ParseFrom(nlp_patterns, 1, Lower(Strip(command)), Lower(Strip(command)))

parse_nlp(command) == ParseFrom(nlp_patterns, 1, Lower(Strip(command)), command)

(***************************************************************************)
(* Paths: os.path.expanduser, os.path.abspath (posixpath)                  *)
(***************************************************************************)

\* the HOME of the process environment that expanduser reads
HomeDir == <<"/","h">>

\* the working directory at import time: HISTORY_FILE is created in it
StartDir == << <<"w">> >>

\* HISTORY_FILE = os.path.join(os.getcwd(), "terminal_history.txt"), as the
\* sequence of its path components
HISTORY_FILE == Append(StartDir, <<"t","e","r","m","i","n","a","l","_","h","i","s","t","o","r","y",".","t","x","t">>)

RECURSIVE RStripSlash(_)
RStripSlash(s) ==
  IF s # <<>> /\ s[Len(s)] = "/" THEN RStripSlash(Take(s, Len(s) - 1)) ELSE s

\* posixpath.expanduser; a "~user" prefix names no user of the host and is
\* left as it is
ExpandUser(path) ==
  IF path = <<>> \/ Head(path) # "~" THEN path
  ELSE LET j == Find(Tail(path), <<"/">>)
           i == IF j < 0 THEN Len(path) ELSE j + 1
       IN  IF i = 1
           THEN LET r == RStripSlash(HomeDir) \o Drop(path, i)
                IN  IF r = <<>> THEN <<"/">> ELSE r
           ELSE path

\* the loop of posixpath.normpath over the components of the path
RECURSIVE NormComps(_, _, _)
NormComps(comps, new, rooted) ==
  IF comps = <<>> THEN new
  ELSE LET c == Head(comps)
       IN  IF c = <<>> \/ c = <<".">> THEN NormComps(Tail(comps), new, rooted)
           ELSE IF c # <<".", ".">>
                   \/ (~rooted /\ new = <<>>)
                   \/ (new # <<>> /\ new[Len(new)] = <<".", ".">>)
                THEN NormComps(Tail(comps), Append(new, c), rooted)
                ELSE IF new # <<>>
                     THEN NormComps(Tail(comps), Take(new, Len(new) - 1), rooted)
                     ELSE NormComps(Tail(comps), new, rooted)

\* posixpath.normpath
NormPath(path) ==
  IF path = <<>> THEN <<".">>
  ELSE LET slashes == IF ~StartsWith(path, <<"/">>) THEN 0
                      ELSE IF StartsWith(path, <<"/", "/">>)
                              /\ ~StartsWith(path, <<"/", "/", "/">>) THEN 2
                      ELSE 1
           new == NormComps(SplitOn(path, <<"/">>), <<>>, slashes > 0)
           p == [i \in 1..slashes |-> "/"] \o Join(new, <<"/">>)
       IN  IF p = <<>> THEN <<".">> ELSE p

\* posixpath.join(a, b)
PathJoin(a, b) ==
  IF StartsWith(b, <<"/">>) THEN b
  ELSE IF a = <<>> \/ a[Len(a)] = "/" THEN a \o b
  ELSE a \o <<"/">> \o b

\* the text of an absolute path given as components
PathStr(p) == <<"/">> \o Join(p, <<"/">>)

\* the components of a normalized absolute path
RECURSIVE NonEmpty(_)
NonEmpty(seq) ==
  IF seq = <<>> THEN <<>>
  ELSE IF Head(seq) = <<>> THEN NonEmpty(Tail(seq))
  ELSE <<Head(seq)>> \o NonEmpty(Tail(seq))

Comps(s) == NonEmpty(SplitOn(s, <<"/">>))

(***************************************************************************)
(* The file system the os and shutil calls act on.  A world w holds        *)
(*   dirs    the directories, each an absolute path given as components,   *)
(*   files   the regular files: a function from paths to contents,         *)
(*   cwd     the working directory of the process, lost = TRUE once the    *)
(*           directory it names has been removed under the process,        *)
(*   history self.history,                                                 *)
(*   big     TRUE once a copy has run away (see CopyTree),                 *)
(*   trace   the calls made so far by the running execute, in order.       *)
(***************************************************************************)

\* str(e) of an OSError is abstracted to the symbol of its errno
EOK == <<>>
ENOENT == <<"E","N","O","E","N","T">>
ENOTDIR == <<"E","N","O","T","D","I","R">>
EISDIR == <<"E","I","S","D","I","R">>
EEXIST == <<"E","E","X","I","S","T">>
ENOTEMPTY == <<"E","N","O","T","E","M","P","T","Y">>
EINVAL == <<"E","I","N","V","A","L">>
EBUSY == <<"E","B","U","S","Y">>
SameFileError == <<"S","a","m","e","F","i","l","e","E","r","r","o","r">>

IsPrefix(p, q) == Len(p) <= Len(q) /\ Take(q, Len(p)) = p
Parent(p) == Take(p, Len(p) - 1)
Prefixes(p) == {Take(p, k) : k \in 0..Len(p)}

\* what stat finds at p: "dir", "file", "none", or "notdir" when a proper
\* prefix of p is a regular file
Kind(w, p) ==
  IF \E k \in 0..(Len(p) - 1) : Take(p, k) \in DOMAIN w.files THEN "notdir"
  ELSE IF p \in w.dirs THEN "dir"
  ELSE IF p \in DOMAIN w.files THEN "file"
  ELSE "none"

\* os.path.exists, isdir, isfile
Exists(w, p) == Kind(w, p) \in {"dir", "file"}
IsDirPath(w, p) == Kind(w, p) = "dir"
IsFilePath(w, p) == Kind(w, p) = "file"

\* the names of the entries of directory p
Children(w, p) ==
  {q[Len(p) + 1] : q \in {r \in w.dirs \cup DOMAIN w.files :
                            Len(r) = Len(p) + 1 /\ Take(r, Len(p)) = p}}

\* the errno of open(p, 'a' or 'w'), EOK when the open succeeds
OpenErr(w, p) ==
  IF Kind(w, p) = "dir" THEN EISDIR
  ELSE IF Kind(w, p) = "notdir" THEN ENOTDIR
  ELSE IF Kind(w, Parent(p)) # "dir" THEN ENOENT
  ELSE EOK

SetFile(w, p, content) ==
  [w EXCEPT !.files = [q \in DOMAIN w.files \cup {p} |->
                         IF q = p THEN content ELSE w.files[q]]]

\* open(p, 'a') and a write of text (after a successful open)
AppendFile(w, p, text) ==
  SetFile(w, p, (IF p \in DOMAIN w.files THEN w.files[p] ELSE <<>>) \o text)

\* open(p, 'w') and a write of text (after a successful open)
WriteFile(w, p, text) == SetFile(w, p, text)

\* os.remove of the regular file p
RemoveFile(w, p) ==
  [w EXCEPT !.files = [q \in DOMAIN w.files \ {p} |-> w.files[q]]]

\* os.chdir(p)
Chdir(w, p) == [w EXCEPT !.cwd = p, !.lost = FALSE]

\* os.makedirs(p, exist_ok=True): the errno, and the world after it
MakeDirsErr(w, p) ==
  IF p \in DOMAIN w.files THEN EEXIST
  ELSE IF Kind(w, p) = "notdir" THEN ENOTDIR
  ELSE EOK

MakeDirs(w, p) == [w EXCEPT !.dirs = w.dirs \cup Prefixes(p)]

\* os.rmdir(p) of a directory p
RmdirErr(w, p) ==
  IF p = <<>> THEN EBUSY
  ELSE IF Children(w, p) # {} THEN ENOTEMPTY
  ELSE EOK

Rmdir(w, p) ==
  IF p = w.cwd /\ ~w.lost
  THEN [w EXCEPT !.dirs = w.dirs \ {p}, !.cwd = <<>>, !.lost = TRUE]
  ELSE [w EXCEPT !.dirs = w.dirs \ {p}]

Reroot(q, src, dst) == dst \o Drop(q, Len(src))

\* the nodes that world old holds below src (src included), copied into w
\* below dst
Graft(w, old, src, dst) ==
  LET ds == {q \in old.dirs : IsPrefix(src, q)}
      fs == {q \in DOMAIN old.files : IsPrefix(src, q)}
      nf == {Reroot(q, src, dst) : q \in fs}
  IN  [w EXCEPT
        !.dirs = w.dirs \cup {Reroot(q, src, dst) : q \in ds},
        !.files = [q \in DOMAIN w.files \cup nf |->
                     IF q \in nf
                     THEN old.files[CHOOSE r \in fs : Reroot(r, src, dst) = q]
                     ELSE w.files[q]]]

\* the nodes below src (src included) removed
Prune(w, src) ==
  [w EXCEPT
    !.dirs = {q \in w.dirs : ~IsPrefix(src, q)},
    !.files = [q \in {r \in DOMAIN w.files : ~IsPrefix(src, r)} |-> w.files[q]]]

\* os.rename(src, dst): the errno, in the order the kernel finds it
RenameErr(w, src, dst) ==
  LET ks == Kind(w, src)
      kd == Kind(w, dst)
  IN  IF src # <<>> /\ Kind(w, Parent(src)) = "none" THEN ENOENT
      ELSE IF src # <<>> /\ Kind(w, Parent(src)) # "dir" THEN ENOTDIR
      ELSE IF dst # <<>> /\ Kind(w, Parent(dst)) = "none" THEN ENOENT
      ELSE IF dst # <<>> /\ Kind(w, Parent(dst)) # "dir" THEN ENOTDIR
      ELSE IF src = <<>> \/ dst = <<>> THEN EBUSY
      ELSE IF ks = "none" THEN ENOENT
      ELSE IF src = dst THEN EOK
      ELSE IF IsPrefix(src, dst) THEN EINVAL
      ELSE IF IsPrefix(dst, src) THEN ENOTEMPTY
      ELSE IF ks = "file" THEN (IF kd = "dir" THEN EISDIR ELSE EOK)
      ELSE IF kd = "file" THEN ENOTDIR
      ELSE IF kd = "dir" /\ Children(w, dst) # {} THEN ENOTEMPTY
      ELSE EOK

\* os.rename(src, dst) when it succeeds; the working directory follows its
\* directory when that is moved, and is lost when that is replaced
Rename(w, src, dst) ==
  IF src = dst THEN w
  ELSE LET moved == Prune(Graft(Prune(w, dst), w, src, dst), src)
       IN  IF w.lost THEN moved
           ELSE IF IsPrefix(src, w.cwd)
                THEN [moved EXCEPT !.cwd = Reroot(w.cwd, src, dst)]
           ELSE IF w.cwd = dst
                THEN [moved EXCEPT !.cwd = <<>>, !.lost = TRUE]
           ELSE moved

\* shutil.copytree(src, dst) of a directory src: the errno of os.makedirs(dst)
CopyTreeErr(w, src, dst) ==
  IF Exists(w, dst) THEN EEXIST
  ELSE IF Kind(w, dst) = "notdir" THEN ENOTDIR
  ELSE EOK

\* shutil.copytree(src, dst) when makedirs succeeds.  The entries of a
\* directory are listed before its copy is created, so a copy into a new
\* entry of src copies what src held before; a copy into a place below an
\* existing subdirectory of src meets its own output and never ends: big.
CopyTree(w, src, dst) ==
  IF IsPrefix(src, dst) /\ Len(dst) >= Len(src) + 2
     /\ Take(dst, Len(src) + 1) \in w.dirs
  THEN [w EXCEPT !.big = TRUE]
  ELSE Graft(MakeDirs(w, Parent(dst)), w, src, dst)

\* shutil.copy2(src, dst) of a src that is no directory: the file written
CopyTarget(w, src, dst) ==
  IF IsDirPath(w, dst) THEN Append(dst, src[Len(src)]) ELSE dst

CopyFileErr(w, src, dst) ==
  LET to == CopyTarget(w, src, dst)
  IN  IF IsFilePath(w, src) /\ to = src THEN SameFileError
      ELSE IF Kind(w, src) = "none" THEN ENOENT
      ELSE IF Kind(w, src) = "notdir" THEN ENOTDIR
      ELSE OpenErr(w, to)

CopyFile(w, src, dst) == WriteFile(w, CopyTarget(w, src, dst), w.files[src])

(***************************************************************************)
(* normalize_path                                                          *)
(***************************************************************************)

\* what a call yields: a str, None (kind "none"), or a raised exception
\* whose str() is text
StrResult(s) == [kind |-> "str", text |-> s]
NoneResult == [kind |-> "none", text |-> <<>>]
Raised(desc) == [kind |-> "raise", text |-> desc]

\* os.getcwd()
Getcwd(w) == IF w.lost THEN Raised(ENOENT) ELSE StrResult(PathStr(w.cwd))

\* normalize_path(path) = os.path.abspath(os.path.expanduser(path)): the
\* normalized text, or the exception of os.getcwd()
normalize_path(w, path) ==
  LET e == ExpandUser(path)
  IN  IF StartsWith(e, <<"/">>) THEN StrResult(NormPath(e))
      ELSE IF w.lost THEN Raised(ENOENT)
      ELSE StrResult(NormPath(PathJoin(PathStr(w.cwd), e)))

(***************************************************************************)
(* Built-in handlers.  A handler yields [w |-> the world after it,         *)
(* out |-> what it returns or raises].                                      *)
(***************************************************************************)

Ret(w, out) == [w |-> w, out |-> out]

\* the ASCII characters in code-point order (the grave accent left out),
\* for the comparison of str
CodePoints == <<"\t", "\n", "\f", "\r", " ", "!", "\"", "#", "$", "%", "&", "'",
  "(", ")", "*", "+", ",", "-", ".", "/", "0", "1", "2", "3", "4", "5", "6",
  "7", "8", "9", ":", ";", "<", "=", ">", "?", "@", "A", "B", "C", "D", "E",
  "F", "G", "H", "I", "J", "K", "L", "M", "N", "O", "P", "Q", "R", "S", "T",
  "U", "V", "W", "X", "Y", "Z", "[", "\\", "]", "^", "_", "a", "b", "c",
  "d", "e", "f", "g", "h", "i", "j", "k", "l", "m", "n", "o", "p", "q", "r",
  "s", "t", "u", "v", "w", "x", "y", "z", "{", "|", "}", "~">>

Ord(c) == CHOOSE i \in 1..Len(CodePoints) : CodePoints[i] = c

\* a <= b for str
RECURSIVE StrLeq(_, _)
StrLeq(a, b) ==
  IF a = <<>> THEN TRUE
  ELSE IF b = <<>> THEN FALSE
  ELSE IF Head(a) = Head(b) THEN StrLeq(Tail(a), Tail(b))
  ELSE Ord(Head(a)) < Ord(Head(b))

\* sorted(names)
RECURSIVE Sorted(_)
Sorted(names) ==
  IF names = {} THEN <<>>
  ELSE LET m == CHOOSE x \in names : \A y \in names : StrLeq(x, y)
       IN  <<m>> \o Sorted(names \ {m})

NL == <<"\n">>

cmd_ls(w, args) ==
  LET path == IF args # <<>> THEN normalize_path(w, args[1]) ELSE Getcwd(w)
      p == Comps(path.text)
      entries == Sorted(Children(w, p))
  IN  IF path.kind = "raise" THEN Ret(w, path)
      ELSE IF Kind(w, p) = "dir"
           THEN Ret(w, StrResult(IF entries # <<>> THEN Join(entries, NL)
                                 ELSE <<"(","e","m","p","t","y",")">>))
      ELSE IF Kind(w, p) = "none"
           THEN Ret(w, StrResult(<<"l","s"," ","e","r","r","o","r",":"," ">> \o ENOENT))
      ELSE Ret(w, StrResult(<<"l","s"," ","e","r","r","o","r",":"," ">> \o ENOTDIR))

\* a variant of cmd_pwd that goes back to the start directory first; C12
\* tells it from cmd_pwd
cmd_pwd_from_start(w) == Ret(Chdir(w, StartDir), StrResult(PathStr(StartDir)))

cmd_pwd(w) == Ret(w, Getcwd(w))

\* a variant of cmd_cd without the two tests before os.chdir; C11 tells it
\* from cmd_cd
cmd_cd_untested(w, args) ==
  IF args = <<>> THEN Ret(w, StrResult(<<"c","d",":"," ","m","i","s","s","i","n","g"," ","a","r","g","u","m","e","n","t">>))
  ELSE LET path == normalize_path(w, args[1])
       IN  IF path.kind = "raise" THEN Ret(w, path)
           ELSE Ret(Chdir(w, Comps(path.text)),
                    StrResult(<<"C","h","a","n","g","e","d"," ","d","i","r","e","c","t","o","r","y"," ","t","o"," ","'">> \o path.text \o <<"'">>))

cmd_cd(w, args) ==
  IF args = <<>> THEN Ret(w, StrResult(<<"c","d",":"," ","m","i","s","s","i","n","g"," ","a","r","g","u","m","e","n","t">>))
  ELSE LET path == normalize_path(w, args[1])
           p == Comps(path.text)
       IN  IF path.kind = "raise" THEN Ret(w, path)
           ELSE IF ~Exists(w, p)
                THEN Ret(w, StrResult(<<"c","d",":"," ","'">> \o path.text
                                      \o <<"'"," ","d","o","e","s"," ","n","o","t"," ","e","x","i","s","t">>))
           ELSE IF ~IsDirPath(w, p)
                THEN Ret(w, StrResult(<<"c","d",":"," ","'">> \o path.text
                                      \o <<"'"," ","i","s"," ","n","o","t"," ","a"," ","d","i","r","e","c","t","o","r","y">>))
           ELSE Ret(Chdir(w, p),
                    StrResult(<<"C","h","a","n","g","e","d"," ","d","i","r","e","c","t","o","r","y"," ","t","o"," ","'">> \o path.text \o <<"'">>))

RECURSIVE MkdirLoop(_, _, _)
MkdirLoop(w, args, output) ==
  IF args = <<>> THEN Ret(w, StrResult(Join(output, NL)))
  ELSE LET path == normalize_path(w, Head(args))
           p == Comps(path.text)
       IN  IF path.kind = "raise" THEN Ret(w, path)
           ELSE IF MakeDirsErr(w, p) # EOK THEN Ret(w, Raised(MakeDirsErr(w, p)))
           ELSE MkdirLoop(MakeDirs(w, p), Tail(args),
                  Append(output, <<"D","i","r","e","c","t","o","r","y"," ","'">> \o path.text
                                 \o <<"'"," ","c","r","e","a","t","e","d"," ","s","u","c","c","e","s","s","f","u","l","l","y">>))

\* a variant of cmd_mkdir that makes the last directory of each path only
\* and fails on one that is there (os.mkdir); C15 tells it from cmd_mkdir
RECURSIVE MkdirOneLoop(_, _, _)
MkdirOneLoop(w, args, output) ==
  IF args = <<>> THEN Ret(w, StrResult(Join(output, NL)))
  ELSE LET path == normalize_path(w, Head(args))
           p == Comps(path.text)
       IN  IF path.kind = "raise" THEN Ret(w, path)
           ELSE IF Exists(w, p) THEN Ret(w, Raised(EEXIST))
           ELSE IF Kind(w, Parent(p)) # "dir" THEN Ret(w, Raised(ENOENT))
           ELSE MkdirOneLoop([w EXCEPT !.dirs = w.dirs \cup {p}], Tail(args),
                  Append(output, <<"D","i","r","e","c","t","o","r","y"," ","'">> \o path.text
                                 \o <<"'"," ","c","r","e","a","t","e","d"," ","s","u","c","c","e","s","s","f","u","l","l","y">>))

cmd_mkdir_one(w, args) ==
  IF args = <<>> THEN Ret(w, StrResult(<<"m","k","d","i","r",":"," ","m","i","s","s","i","n","g"," ","a","r","g","u","m","e","n","t">>))
  ELSE MkdirOneLoop(w, args, <<>>)

cmd_mkdir(w, args) ==
  IF args = <<>> THEN Ret(w, StrResult(<<"m","k","d","i","r",":"," ","m","i","s","s","i","n","g"," ","a","r","g","u","m","e","n","t">>))
  ELSE MkdirLoop(w, args, <<>>)

RECURSIVE RmdirLoop(_, _, _)
RmdirLoop(w, args, output) ==
  IF args = <<>> THEN Ret(w, StrResult(Join(output, NL)))
  ELSE LET path == normalize_path(w, Head(args))
           p == Comps(path.text)
       IN  IF path.kind = "raise" THEN Ret(w, path)
           ELSE IF IsDirPath(w, p)
                THEN IF RmdirErr(w, p) = EOK
                     THEN RmdirLoop(Rmdir(w, p), Tail(args),
                            Append(output, <<"D","i","r","e","c","t","o","r","y"," ","'">> \o path.text
                                           \o <<"'"," ","r","e","m","o","v","e","d"," ","s","u","c","c","e","s","s","f","u","l","l","y">>))
                     ELSE RmdirLoop(w, Tail(args),
                            Append(output, <<"r","m","d","i","r",":"," ","'">> \o path.text
                                           \o <<"'"," ","n","o","t"," ","e","m","p","t","y">>))
           ELSE RmdirLoop(w, Tail(args),
                  Append(output, <<"r","m","d","i","r",":"," ","'">> \o path.text
                                 \o <<"'"," ","n","o","t"," ","a"," ","d","i","r","e","c","t","o","r","y">>))

cmd_rmdir(w, args) ==
  IF args = <<>> THEN Ret(w, StrResult(<<"r","m","d","i","r",":"," ","m","i","s","s","i","n","g"," ","a","r","g","u","m","e","n","t">>))
  ELSE RmdirLoop(w, args, <<>>)

RECURSIVE RmLoop(_, _, _)
RmLoop(w, args, output) ==
  IF args = <<>> THEN Ret(w, StrResult(Join(output, NL)))
  ELSE LET path == normalize_path(w, Head(args))
           p == Comps(path.text)
       IN  IF path.kind = "raise" THEN Ret(w, path)
           ELSE IF IsFilePath(w, p)
                THEN RmLoop(RemoveFile(w, p), Tail(args),
                       Append(output, <<"F","i","l","e"," ","'">> \o path.text
                                      \o <<"'"," ","r","e","m","o","v","e","d"," ","s","u","c","c","e","s","s","f","u","l","l","y">>))
           ELSE IF IsDirPath(w, p)
                THEN RmLoop(w, Tail(args),
                       Append(output, <<"r","m",":"," ","'">> \o path.text
                                      \o <<"'"," ","i","s"," ","a"," ","d","i","r","e","c","t","o","r","y"," ","(","u","s","e"," ","r","m","d","i","r",")">>))
           ELSE RmLoop(w, Tail(args),
                  Append(output, <<"r","m",":"," ","'">> \o path.text \o <<"'"," ","n","o","t"," ","f","o","u","n","d">>))

\* a variant of cmd_rm that removes a directory with all below it; C13 tells
\* it from cmd_rm
RECURSIVE RmAnyLoop(_, _, _)
RmAnyLoop(w, args, output) ==
  IF args = <<>> THEN Ret(w, StrResult(Join(output, NL)))
  ELSE LET path == normalize_path(w, Head(args))
           p == Comps(path.text)
       IN  IF path.kind = "raise" THEN Ret(w, path)
           ELSE IF IsFilePath(w, p)
                THEN RmAnyLoop(RemoveFile(w, p), Tail(args),
                       Append(output, <<"F","i","l","e"," ","'">> \o path.text
                                      \o <<"'"," ","r","e","m","o","v","e","d"," ","s","u","c","c","e","s","s","f","u","l","l","y">>))
           ELSE IF IsDirPath(w, p) /\ p # <<>>
                THEN RmAnyLoop(Prune(w, p), Tail(args),
                       Append(output, <<"r","m",":"," ","'">> \o path.text
                                      \o <<"'"," ","i","s"," ","a"," ","d","i","r","e","c","t","o","r","y"," ","(","u","s","e"," ","r","m","d","i","r",")">>))
           ELSE RmAnyLoop(w, Tail(args),
                  Append(output, <<"r","m",":"," ","'">> \o path.text \o <<"'"," ","n","o","t"," ","f","o","u","n","d">>))

cmd_rm_any(w, args) ==
  IF args = <<>> THEN Ret(w, StrResult(<<"r","m",":"," ","m","i","s","s","i","n","g"," ","o","p","e","r","a","n","d">>))
  ELSE RmAnyLoop(w, args, <<>>)

cmd_rm(w, args) ==
  IF args = <<>> THEN Ret(w, StrResult(<<"r","m",":"," ","m","i","s","s","i","n","g"," ","o","p","e","r","a","n","d">>))
  ELSE RmLoop(w, args, <<>>)

RECURSIVE TouchLoop(_, _, _)
TouchLoop(w, args, output) ==
  IF args = <<>> THEN Ret(w, StrResult(Join(output, NL)))
  ELSE LET path == normalize_path(w, Head(args))
           p == Comps(path.text)
       IN  IF path.kind = "raise" THEN Ret(w, path)
           ELSE IF OpenErr(w, p) # EOK THEN Ret(w, Raised(OpenErr(w, p)))
           ELSE TouchLoop(AppendFile(w, p, <<>>), Tail(args),
                  Append(output, <<"F","i","l","e"," ","'">> \o path.text
                                 \o <<"'"," ","c","r","e","a","t","e","d"," ","s","u","c","c","e","s","s","f","u","l","l","y">>))

cmd_touch(w, args) ==
  IF args = <<>> THEN Ret(w, StrResult(<<"t","o","u","c","h",":"," ","m","i","s","s","i","n","g"," ","f","i","l","e"," ","o","p","e","r","a","n","d">>))
  ELSE TouchLoop(w, args, <<>>)

cmd_mv(w, args) ==
  IF Len(args) < 2 THEN Ret(w, StrResult(<<"m","v",":"," ","m","i","s","s","i","n","g"," ","s","o","u","r","c","e","/","d","e","s","t","i","n","a","t","i","o","n">>))
  ELSE LET src == normalize_path(w, args[1])
           dest == normalize_path(w, args[2])
           s == Comps(src.text)
           d == Comps(dest.text)
       IN  IF src.kind = "raise" THEN Ret(w, src)
           ELSE IF dest.kind = "raise" THEN Ret(w, dest)
           ELSE IF RenameErr(w, s, d) # EOK THEN Ret(w, Raised(RenameErr(w, s, d)))
           ELSE Ret(Rename(w, s, d),
                    StrResult(<<"'">> \o src.text \o <<"'"," ","r","e","n","a","m","e","d","/","m","o","v","e","d"," ","t","o"," ","'">>
                              \o dest.text \o <<"'"," ","s","u","c","c","e","s","s","f","u","l","l","y">>))

cmd_cp(w, args) ==
  IF Len(args) < 2 THEN Ret(w, StrResult(<<"c","p",":"," ","m","i","s","s","i","n","g"," ","s","o","u","r","c","e","/","d","e","s","t","i","n","a","t","i","o","n">>))
  ELSE LET src == normalize_path(w, args[1])
           dest == normalize_path(w, args[2])
           s == Comps(src.text)
           d == Comps(dest.text)
       IN  IF src.kind = "raise" THEN Ret(w, src)
           ELSE IF dest.kind = "raise" THEN Ret(w, dest)
           ELSE IF IsDirPath(w, s)
                THEN IF CopyTreeErr(w, s, d) # EOK
                     THEN Ret(w, Raised(CopyTreeErr(w, s, d)))
                     ELSE Ret(CopyTree(w, s, d),
                              StrResult(<<"D","i","r","e","c","t","o","r","y"," ","'">> \o src.text
                                        \o <<"'"," ","c","o","p","i","e","d"," ","t","o"," ","'">> \o dest.text
                                        \o <<"'"," ","s","u","c","c","e","s","s","f","u","l","l","y">>))
           ELSE IF CopyFileErr(w, s, d) # EOK
                THEN Ret(w, Raised(CopyFileErr(w, s, d)))
           ELSE Ret(CopyFile(w, s, d),
                    StrResult(<<"F","i","l","e"," ","'">> \o src.text \o <<"'"," ","c","o","p","i","e","d"," ","t","o"," ","'">>
                              \o dest.text \o <<"'"," ","s","u","c","c","e","s","s","f","u","l","l","y">>))

RECURSIVE CatLoop(_, _, _)
CatLoop(w, args, output) ==
  IF args = <<>> THEN Ret(w, StrResult(Join(output, NL)))
  ELSE LET path == normalize_path(w, Head(args))
           p == Comps(path.text)
       IN  IF path.kind = "raise" THEN Ret(w, path)
           ELSE IF IsFilePath(w, p)
                THEN CatLoop(w, Tail(args), Append(output, w.files[p]))
           ELSE CatLoop(w, Tail(args),
                  Append(output, <<"c","a","t",":"," ","'">> \o path.text \o <<"'"," ","n","o","t"," ","f","o","u","n","d">>))

cmd_cat(w, args) ==
  IF args = <<>> THEN Ret(w, StrResult(<<"c","a","t",":"," ","m","i","s","s","i","n","g"," ","f","i","l","e"," ","o","p","e","r","a","n","d">>))
  ELSE CatLoop(w, args, <<>>)

\* the redirect branches of cmd_echo: parts = line.split(op), the file is
\* parts[1] and the text parts[0], both stripped
EchoTo(w, line, op, append) ==
  LET parts == SplitOn(line, op)
      file == normalize_path(w, Strip(parts[2]))
      p == Comps(file.text)
      text == Strip(parts[1]) \o NL
  IN  IF file.kind = "raise" THEN Ret(w, file)
      ELSE IF OpenErr(w, p) # EOK THEN Ret(w, Raised(OpenErr(w, p)))
      ELSE IF append
           THEN Ret(AppendFile(w, p, text),
                    StrResult(<<"T","e","x","t"," ","a","p","p","e","n","d","e","d"," ","t","o"," ","'">> \o file.text
                              \o <<"'"," ","s","u","c","c","e","s","s","f","u","l","l","y">>))
      ELSE Ret(WriteFile(w, p, text),
               StrResult(<<"T","e","x","t"," ","w","r","i","t","t","e","n"," ","t","o"," ","'">> \o file.text
                         \o <<"'"," ","s","u","c","c","e","s","s","f","u","l","l","y">>))

\* a variant of cmd_echo whose ">" appends as ">>" does; C14 tells it from
\* cmd_echo
cmd_echo_appends(w, args) ==
  LET line == Join(args, <<" ">>)
  IN  IF Contains(line, <<">">>)
      THEN IF Contains(line, <<">", ">">>)
           THEN EchoTo(w, line, <<">", ">">>, TRUE)
           ELSE EchoTo(w, line, <<">">>, TRUE)
      ELSE Ret(w, StrResult(line))

cmd_echo(w, args) ==
  LET line == Join(args, <<" ">>)
  IN  IF Contains(line, <<">">>)
      THEN IF Contains(line, <<">", ">">>)
           THEN EchoTo(w, line, <<">", ">">>, TRUE)
           ELSE EchoTo(w, line, <<">">>, FALSE)
      ELSE Ret(w, StrResult(line))

\* the number of entries that history shows (self.history[-50:])
HistoryShown == 50

LastN(seq, n) == IF Len(seq) <= n THEN seq ELSE Drop(seq, Len(seq) - n)

\* a variant of cmd_history whose -c clears the list and leaves the file;
\* C3 tells it from cmd_history
cmd_history_memory_only(w, args) ==
  IF args # <<>> /\ args[1] = <<"-","c">>
  THEN Ret([w EXCEPT !.history = <<>>], StrResult(<<"H","i","s","t","o","r","y"," ","c","l","e","a","r","e","d">>))
  ELSE Ret(w, StrResult(Join(LastN(w.history, HistoryShown), NL)))

cmd_history(w, args) ==
  IF args # <<>> /\ args[1] = <<"-","c">>
  THEN LET cleared == [w EXCEPT !.history = <<>>]
       IN  IF OpenErr(w, HISTORY_FILE) # EOK
           THEN Ret(cleared, Raised(OpenErr(w, HISTORY_FILE)))
           ELSE Ret(WriteFile(cleared, HISTORY_FILE, <<>>),
                    StrResult(<<"H","i","s","t","o","r","y"," ","c","l","e","a","r","e","d">>))
  ELSE Ret(w, StrResult(Join(LastN(w.history, HistoryShown), NL)))

(***************************************************************************)
(* System monitoring and the shell                                         *)
(***************************************************************************)

Digits == <<"0", "1", "2", "3", "4", "5", "6", "7", "8", "9">>

\* str(n) of an int n >= 0
RECURSIVE IntToStr(_)
IntToStr(n) ==
  IF n < 10 THEN <<Digits[n + 1]>>
  ELSE IntToStr(n \div 10) \o <<Digits[(n % 10) + 1]>>

\* format(s, ">n") and format(s, "<n")
PadLeft(s, n) == [i \in 1..(IF Len(s) < n THEN n - Len(s) ELSE 0) |-> " "] \o s
PadRight(s, n) == s \o [i \in 1..(IF Len(s) < n THEN n - Len(s) ELSE 0) |-> " "]

\* 1024**2
MiB == 1048576

\* the width of the pid column, the width of the name column, and the
\* number of processes shown
PidWidth == 5
NameWidth == 20
ProcessesShown == 50

RECURSIVE CpuLines(_, _)
CpuLines(usage, i) ==
  IF i > Len(usage) THEN <<>>
  ELSE <<<<"C","P","U"," ">> \o IntToStr(i - 1) \o <<":"," ">> \o usage[i] \o <<"%">>>>
       \o CpuLines(usage, i + 1)

NotInstalled == StrResult(<<"p","s","u","t","i","l"," ","m","o","d","u","l","e"," ","n","o","t"," ","i","n","s","t","a","l","l","e","d">>)

\* env.usage: psutil.cpu_percent(interval=1, percpu=True), each float as
\* its str(); env.sampler = "raise" when psutil raises
cmd_cpu(w, available, env) ==
  IF ~available THEN Ret(w, NotInstalled)
  ELSE IF env.sampler = "raise" THEN Ret(w, Raised(env.error))
  ELSE Ret(w, StrResult(Join(CpuLines(env.usage, 1), NL)))

\* env.mem: psutil.virtual_memory(), total, used and available in bytes
cmd_memory(w, available, env) ==
  IF ~available THEN Ret(w, NotInstalled)
  ELSE IF env.sampler = "raise" THEN Ret(w, Raised(env.error))
  ELSE Ret(w, StrResult(
         <<"T","o","t","a","l",":"," ">> \o IntToStr(env.mem.total \div MiB) \o <<" ","M","B","\n","U","s","e","d",":"," ">>
         \o IntToStr(env.mem.used \div MiB) \o <<" ","M","B","\n","F","r","e","e",":"," ">>
         \o IntToStr(env.mem.available \div MiB) \o <<" ","M","B","\n","P","e","r","c","e","n","t","a","g","e",":"," ">>
         \o env.mem.percent \o <<"%">>))

RECURSIVE ProcessLines(_)
ProcessLines(procs) ==
  IF procs = <<>> THEN <<>>
  ELSE <<PadLeft(IntToStr(Head(procs).pid), PidWidth) \o <<" ">>
         \o PadRight(Take(Head(procs).name,
                          IF Len(Head(procs).name) < NameWidth
                          THEN Len(Head(procs).name) ELSE NameWidth), NameWidth)
         \o <<" ">> \o Head(procs).username>>
       \o ProcessLines(Tail(procs))

\* env.procs: psutil.process_iter(['pid', 'name', 'username'])
cmd_processes(w, available, env) ==
  IF ~available THEN Ret(w, NotInstalled)
  ELSE IF env.sampler = "raise" THEN Ret(w, Raised(env.error))
  ELSE LET lines == ProcessLines(env.procs)
       IN  Ret(w, StrResult(Join(
             Take(lines, IF Len(lines) < ProcessesShown THEN Len(lines)
                         ELSE ProcessesShown), NL)))

\* system_command: env.shell is what subprocess.run yields for the command,
\* its stdout and stderr, or the exception it raises (a timeout).  What the
\* command itself does to the file system is outside the model.
system_command(w, env, command) ==
  IF env.shell = "raise"
  THEN Ret(w, StrResult(<<"S","y","s","t","e","m"," ","c","o","m","m","a","n","d"," ","e","r","r","o","r",":"," ">> \o env.error))
  ELSE Ret(w, StrResult(Strip(env.stdout)
                        \o (IF env.stderr # <<>> THEN NL \o Strip(env.stderr)
                            ELSE <<>>)))

(***************************************************************************)
(* History                                                                 *)
(***************************************************************************)

\* datetime.now().strftime("%Y-%m-%d %H:%M:%S") at the t-th second of the
\* minute the model plays in
Strftime(t) == <<"2","0","2","5","-","0","1","-","0","1"," ","0","0",":","0","0",":","0">> \o IntToStr(t)

\* text-mode reading: "\r\n" and "\r" are read as "\n"
Universal(s) ==
  SelectSeq([i \in DOMAIN s |->
               IF s[i] = "\n" /\ i > 1 /\ s[i - 1] = "\r" THEN "\r\n"
               ELSE IF s[i] = "\r" THEN "\n"
               ELSE s[i]],
            LAMBDA c : c # "\r\n")

\* f.readlines(), each line without its line break
ReadLines(content) ==
  LET pieces == SplitOn(Universal(content), NL)
  IN  IF pieces[Len(pieces)] = <<>> THEN Take(pieces, Len(pieces) - 1)
      ELSE pieces

\* load_history: self.history after __init__ in world w
load_history(w) ==
  IF IsFilePath(w, HISTORY_FILE)
  THEN LET lines == ReadLines(w.files[HISTORY_FILE])
       IN  [i \in 1..Len(lines) |-> Strip(lines[i])]
  ELSE <<>>

\* the entry save_history makes of a command at time t
Entry(command, t) == <<"[">> \o Strftime(t) \o <<"]"," ">> \o command

\* one call made during execute: the function, and its str or list argument
Ev(fn, text, args) == [fn |-> fn, text |-> text, args |-> args]

Called(w, fn, text, args) == [w EXCEPT !.trace = Append(@, Ev(fn, text, args))]

\* a variant of save_history that logs the command as parse_nlp rewrites it;
\* C1 tells it from save_history
save_history_translated(w, command, t) ==
  LET entry == Entry(parse_nlp(command), t)
      mem == [Called(w, "save_history", command, <<>>)
                EXCEPT !.history = Append(w.history, entry)]
  IN  IF OpenErr(w, HISTORY_FILE) # EOK
      THEN Called(mem, "safe_print",
                  <<"E","r","r","o","r"," ","s","a","v","i","n","g"," ","h","i","s","t","o","r","y",":"," ">> \o OpenErr(w, HISTORY_FILE), <<>>)
      ELSE AppendFile(mem, HISTORY_FILE, entry \o NL)

\* a variant of save_history that appends to the file first and to
\* self.history only when the file took the entry; C17 tells it from
\* save_history
save_history_sink_first(w, command, t) ==
  LET entry == Entry(command, t)
      called == Called(w, "save_history", command, <<>>)
  IN  IF OpenErr(w, HISTORY_FILE) # EOK
      THEN Called(called, "safe_print",
                  <<"E","r","r","o","r"," ","s","a","v","i","n","g"," ","h","i","s","t","o","r","y",":"," ">> \o OpenErr(w, HISTORY_FILE), <<>>)
      ELSE AppendFile([called EXCEPT !.history = Append(w.history, entry)],
                      HISTORY_FILE, entry \o NL)

\* a variant of save_history that writes the entry to the file without the
\* line break; C20 tells it from save_history
save_history_unterminated(w, command, t) ==
  LET entry == Entry(command, t)
      mem == [Called(w, "save_history", command, <<>>)
                EXCEPT !.history = Append(w.history, entry)]
  IN  IF OpenErr(w, HISTORY_FILE) # EOK
      THEN Called(mem, "safe_print",
                  <<"E","r","r","o","r"," ","s","a","v","i","n","g"," ","h","i","s","t","o","r","y",":"," ">> \o OpenErr(w, HISTORY_FILE), <<>>)
      ELSE AppendFile(mem, HISTORY_FILE, entry)

\* save_history: the entry is appended to self.history, then to the file;
\* a failure of the file is printed and swallowed
save_history(w, command, t) ==
  LET entry == Entry(command, t)
      mem == [Called(w, "save_history", command, <<>>)
                EXCEPT !.history = Append(w.history, entry)]
  IN  IF OpenErr(w, HISTORY_FILE) # EOK
      THEN Called(mem, "safe_print",
                  <<"E","r","r","o","r"," ","s","a","v","i","n","g"," ","h","i","s","t","o","r","y",":"," ">> \o OpenErr(w, HISTORY_FILE), <<>>)
      ELSE AppendFile(mem, HISTORY_FILE, entry \o NL)

(***************************************************************************)
(* execute                                                                 *)
(***************************************************************************)

\* the if/elif chain of execute
IfElifChain(w, available, env, cmd, args, command) ==
  CASE cmd = <<"l","s">> -> cmd_ls(Called(w, "cmd_ls", <<>>, args), args)
    [] cmd = <<"p","w","d">> -> cmd_pwd(Called(w, "cmd_pwd", <<>>, <<>>))
    [] cmd = <<"c","d">> -> cmd_cd(Called(w, "cmd_cd", <<>>, args), args)
    [] cmd = <<"m","k","d","i","r">> -> cmd_mkdir(Called(w, "cmd_mkdir", <<>>, args), args)
    [] cmd = <<"r","m","d","i","r">> -> cmd_rmdir(Called(w, "cmd_rmdir", <<>>, args), args)
    [] cmd = <<"r","m">> -> cmd_rm(Called(w, "cmd_rm", <<>>, args), args)
    [] cmd = <<"t","o","u","c","h">> -> cmd_touch(Called(w, "cmd_touch", <<>>, args), args)
    [] cmd = <<"m","v">> -> cmd_mv(Called(w, "cmd_mv", <<>>, args), args)
    [] cmd = <<"c","p">> -> cmd_cp(Called(w, "cmd_cp", <<>>, args), args)
    [] cmd = <<"c","a","t">> -> cmd_cat(Called(w, "cmd_cat", <<>>, args), args)
    [] cmd = <<"e","c","h","o">> -> cmd_echo(Called(w, "cmd_echo", <<>>, args), args)
    [] cmd = <<"h","i","s","t","o","r","y">> ->
         cmd_history(Called(w, "cmd_history", <<>>, args), args)
    [] cmd = <<"c","l","e","a","r">> ->
         Ret(Called(w, "os.system", <<"c","l","e","a","r">>, <<>>), StrResult(<<>>))
    [] cmd = <<"c","p","u">> -> cmd_cpu(Called(w, "cmd_cpu", <<>>, <<>>), available, env)
    [] cmd = <<"m","e","m","o","r","y">> ->
         cmd_memory(Called(w, "cmd_memory", <<>>, <<>>), available, env)
    [] cmd = <<"p","r","o","c","e","s","s","e","s">> ->
         cmd_processes(Called(w, "cmd_processes", <<>>, <<>>), available, env)
    [] cmd \in {<<"e","x","i","t">>, <<"q","u","i","t">>} -> Ret(w, StrResult(<<"e","x","i","t">>))
    [] OTHER ->
         system_command(Called(w, "system_command", command, <<>>), env, command)

\* a variant of the chain whose quit branch is missing, so that quit goes
\* to the shell; C5 tells it from Dispatch
DispatchQuitToShell(w, available, env, cmd, args, command) ==
  IF cmd = <<"q","u","i","t">>
  THEN system_command(Called(w, "system_command", command, <<>>), env, command)
  ELSE IfElifChain(w, available, env, cmd, args, command)

\* a variant of the chain whose rmdir branch calls cmd_rm; C10 tells it
\* from Dispatch
DispatchRmdirAsRm(w, available, env, cmd, args, command) ==
  IF cmd = <<"r","m","d","i","r">> THEN cmd_rm(Called(w, "cmd_rm", <<>>, args), args)
  ELSE IfElifChain(w, available, env, cmd, args, command)

\* the try block of execute
Dispatch(w, available, env, cmd, args, command) ==
  IfElifChain(w, available, env, cmd, args, command)

\* a variant of execute without its try/except; C6 tells it from Caught
Uncaught(r) == r

\* the except clause of execute
Caught(r) ==
  IF r.out.kind = "raise"
  THEN Ret(Called(r.w, "except", r.out.text, <<>>),
           StrResult(<<"E","r","r","o","r",":"," ">> \o r.out.text))
  ELSE r

\* a variant of execute that logs a blank line as it logs a command, and
\* returns the empty string for it; C2 tells it from execute
execute_blank_logged(w, available, env, command, t) ==
  LET saved == save_history([w EXCEPT !.trace = <<>>], command, t)
      translated == parse_nlp(command)
      parts == Split(Strip(translated))
  IN  IF parts = <<>> THEN Ret(saved, StrResult(<<>>))
      ELSE Caught(Dispatch(Called(saved, "parse_nlp", command, <<>>),
                           available, env, Lower(parts[1]), Tail(parts),
                           translated))

\* execute(command) at time t in world w: the world after the call (its
\* trace the calls of this execute) and what the call returns
execute(w, available, env, command, t) ==
  IF Strip(command) = <<>> THEN Ret([w EXCEPT !.trace = <<>>], NoneResult)
  ELSE LET saved == save_history([w EXCEPT !.trace = <<>>], command, t)
           translated == parse_nlp(command)
           parts == Split(Strip(translated))
           cmd == Lower(parts[1])
           args == Tail(parts)
       IN  Caught(Dispatch(Called(saved, "parse_nlp", command, <<>>),
                           available, env, cmd, args, translated))

\* execute line by line, as a thread runs it: self.history.append(entry) of
\* save_history,
AppendEntry(w, command, t) ==
  [Called(w, "save_history", command, <<>>)
     EXCEPT !.history = Append(w.history, Entry(command, t))]

\* the append to the file of save_history,
WriteEntry(w, command, t) ==
  IF OpenErr(w, HISTORY_FILE) # EOK
  THEN Called(w, "safe_print",
              <<"E","r","r","o","r"," ","s","a","v","i","n","g"," ","h","i","s","t","o","r","y",":"," ">> \o OpenErr(w, HISTORY_FILE), <<>>)
  ELSE AppendFile(w, HISTORY_FILE, Entry(command, t) \o NL)

\* and parse_nlp with the chain and the except clause
Chain(w, available, env, command) ==
  LET translated == parse_nlp(command)
      parts == Split(Strip(translated))
  IN  Caught(Dispatch(Called(w, "parse_nlp", command, <<>>),
                      available, env, Lower(parts[1]), Tail(parts), translated))

(***************************************************************************)
(* The state of the process and of its host                                *)
(***************************************************************************)

VARIABLES
  dirs,       \* the directories of the file system
  files,      \* its regular files and their contents
  cwd,        \* the working directory of the process
  lost,       \* the working directory has been removed under the process
  history,    \* self.history of the one UnifiedTerminal
  available,  \* PSUTIL_AVAILABLE
  command,    \* the argument of the latest execute
  result,     \* what the latest execute returned
  trace,      \* the calls the latest execute made
  inflight    \* the requests of app.py that are inside execute_command

vars ==
  <<dirs, files, cwd, lost, history, available, command, result, trace,
    inflight>>

World ==
  [dirs |-> dirs, files |-> files, cwd |-> cwd, lost |-> lost,
   history |-> history, big |-> FALSE, trace |-> <<>>]

\* the bounds of the model: entries in self.history, components of a path,
\* line breaks in a file
MaxHist == 2
MaxHistShort == 1
MaxDepth == 4
MaxLines == 3

\* the seconds the clock may show when a command is saved
Clock == {0, 1}

Count(s, c) == Cardinality({i \in DOMAIN s : s[i] = c})

InBounds(w, H) ==
  /\ ~w.big
  /\ Len(w.history) <= H
  /\ \A p \in w.dirs \cup DOMAIN w.files : Len(p) <= MaxDepth
  /\ \A p \in DOMAIN w.files : Count(w.files[p], "\n") <= MaxLines

\* what the host answers to the shell command and to psutil
\* the threads of the server of app.py that serve /execute (app.run starts
\* the development server, which serves each request in a thread of its
\* own), and where a thread is: outside execute_command, or inside
\* terminal.execute(cmd) before the line named
Requests == {1, 2}

Idle == [pc |-> "idle", cmd |-> <<>>]

QuietEnv ==
  [shell |-> "ok", stdout |-> <<>>, stderr |-> <<>>, sampler |-> "ok",
   error |-> <<>>, usage |-> <<<<"0",".","0">>>>,
   mem |-> [total |-> 3 * MiB, used |-> MiB + 1, available |-> 2 * MiB - 1,
            percent |-> <<"3","3",".","3">>],
   procs |-> <<[pid |-> 1, name |-> <<"i","n","i","t">>, username |-> <<"r","o","o","t">>]>>]

Envs ==
  { QuietEnv,
    [QuietEnv EXCEPT !.stdout = <<"e","x","i","t","\n">>, !.usage = <<<<"1",".","5">>, <<"1","0","0",".","0">>>>,
       !.procs = <<[pid |-> 1, name |-> <<"i","n","i","t">>, username |-> <<"r","o","o","t">>],
                   [pid |-> 4242, name |-> <<"a","-","v","e","r","y","-","l","o","n","g","-","p","r","o","c","e","s","s","-","n","a","m","e">>,
                    username |-> <<"N","o","n","e">>]>>],
    [QuietEnv EXCEPT !.stderr = <<"s","h",":"," ","1",":"," ","h","e","l","p",":"," ","n","o","t"," ","f","o","u","n","d","\n">>],
    [QuietEnv EXCEPT !.shell = "raise", !.sampler = "raise",
       !.error = <<"t","i","m","e","d"," ","o","u","t">>] }

\* the verbs whose handlers ask nothing of the host: for them the answer
\* of the host is immaterial, and one answer is drawn
LocalVerbs ==
  { <<"l","s">>, <<"p","w","d">>, <<"c","d">>, <<"m","k","d","i","r">>, <<"r","m","d","i","r">>, <<"r","m">>, <<"t","o","u","c","h">>, <<"m","v">>,
    <<"c","p">>, <<"c","a","t">>, <<"e","c","h","o">>, <<"h","i","s","t","o","r","y">>, <<"c","l","e","a","r">>, <<"e","x","i","t">>, <<"q","u","i","t">> }

EnvsFor(c) ==
  IF Strip(c) = <<>> THEN {QuietEnv}
  ELSE IF Lower(Split(parse_nlp(c))[1]) \in LocalVerbs THEN {QuietEnv}
  ELSE Envs

\* an empty command reads no clock
ClockFor(c, T) == IF Strip(c) = <<>> THEN {0} ELSE T

\* the file system when the module is imported: the root, the start
\* directory and the home directory, and either no history file or the
\* file a former session left
FormerSession == <<"[","2","0","2","4","-","1","2","-","3","1"," ","2","3",":","5","9",":","5","9","]"," ","p","w","d"," ","\n">>

InitFiles ==
  { <<>>, [p \in {HISTORY_FILE} |-> FormerSession] }

InitWith(F, A) ==
  /\ dirs = {<<>>, StartDir, Comps(HomeDir)}
  /\ files \in F
  /\ cwd = StartDir
  /\ lost = FALSE
  /\ history = load_history([dirs |-> dirs, files |-> files])
  /\ available \in A
  /\ command = <<>>
  /\ result = NoneResult
  /\ trace = <<>>
  /\ inflight = [r \in Requests |-> Idle]

\* one call execute(c) of a front end (run, or execute_command of app.py),
\* c drawn from the inputs S and the clock read in T
ExecuteIn(S, T, H) ==
  \E c \in S :
    \E t \in ClockFor(c, T), env \in EnvsFor(c) :
      \E r \in {execute(World, available, env, c, t)} :
        /\ InBounds(r.w, H)
        /\ dirs' = r.w.dirs
        /\ files' = r.w.files
        /\ cwd' = r.w.cwd
        /\ lost' = r.w.lost
        /\ history' = r.w.history
        /\ command' = c
        /\ result' = r.out
        /\ trace' = r.w.trace
        /\ UNCHANGED inflight
        /\ UNCHANGED available

\* the test of run() that ends the session: output == "exit"
IsExitSignal(output) == output.kind = "str" /\ output.text = <<"e","x","i","t">>

(***************************************************************************)
(* Specification Spec: a session of blank lines, history commands, a       *)
(* translated phrase and a move of the start directory (after which the    *)
(* history file cannot be written), with the history file a former         *)
(* session may have left.                                                  *)
(***************************************************************************)

Inputs ==
  { <<>>, <<" "," ">>, <<"p","w","d">>, <<"c","r","e","a","t","e"," ","f","i","l","e"," ","x">>, <<"h","i","s","t","o","r","y">>, <<"h","i","s","t","o","r","y"," ","-","c">>,
    <<"m","v"," ","/","w"," ","/","v">> }

Init == InitWith(InitFiles, {FALSE})

Next == ExecuteIn(Inputs, {0}, MaxHist)

Spec == Init /\ [][Next]_vars

(***************************************************************************)
(* Specification SpecExit: a session of exit and quit in several spellings *)
(* and with arguments, and of commands whose output is the word exit.      *)
(***************************************************************************)

ExitInputs ==
  { <<"e","x","i","t">>, <<"Q","U","I","T">>, <<"Q","u","i","t"," ","n","o","w">>, <<"e","x","i","t"," ","0"," ","1">>, <<" "," ","e","X","i","T"," "," ">>, <<"q","u","i","t"," ",">"," ","f">>,
    <<"e","c","h","o"," ","e","x","i","t">>, <<"e","c","h","o"," ","E","x","i","t">>, <<"p","r","i","n","t","f"," ","e","x","i","t">>, <<"p","w","d">> }

NextExit == ExecuteIn(ExitInputs, {0}, MaxHist)

SpecExit == InitWith(InitFiles, {FALSE}) /\ [][NextExit]_vars

(***************************************************************************)
(* Specification SpecFiles: a session of file commands that fail and that  *)
(* succeed, with names in both letter cases, and of the move that takes    *)
(* the history file away.                                                  *)
(***************************************************************************)

FileInputs ==
  { <<"m","v"," ","x"," ","y">>, <<"c","p"," ","x"," ","y">>, <<"t","o","u","c","h"," ","d","/","x">>, <<"t","o","u","c","h"," ","x">>, <<"t","o","u","c","h"," ","X">>,
    <<"c","r","e","a","t","e"," ","f","i","l","e"," ","X">>, <<"c","r","e","a","t","e"," ","f","i","l","e"," ","x">>, <<"h","i","s","t","o","r","y"," ","-","c">>, <<"m","v"," ","/","w"," ","/","v">>, <<"p","w","d">> }

NextFiles == ExecuteIn(FileInputs, {0}, MaxHistShort)

SpecFiles == InitWith(InitFiles, {FALSE}) /\ [][NextFiles]_vars

(***************************************************************************)
(* Specification SpecDispatch: a session with one command or more for each *)
(* branch of the chain, verbs in both letter cases, phrases that are       *)
(* translated, and commands that only the shell knows; psutil is           *)
(* installed or not.                                                       *)
(***************************************************************************)

DispatchInputs ==
  { <<"l","s"," ","/","h">>, <<"P","W","D"," ","n","o","w">>, <<"c","d"," ","n","o","w","h","e","r","e">>, <<"m","k","d","i","r"," ","/","h">>, <<"r","m","d","i","r"," ","x">>, <<"r","m"," ","x"," ","y">>,
    <<"t","o","u","c","h"," ","/","h">>, <<"m","v"," ","a"," ","b">>, <<"c","p"," ","a"," ","b">>, <<"c","a","t"," ","a"," ","b">>, <<"E","c","h","o"," ","H","i"," "," ","t","h","e","r","e">>,
    <<"h","i","s","t","o","r","y"," ","5">>, <<"h","i","s","t","o","r","y"," ","-","c">>, <<"c","l","e","a","r">>, <<"c","p","u">>, <<"m","e","m","o","r","y"," ","x">>, <<"p","r","o","c","e","s","s","e","s">>, <<"e","x","i","t">>,
    <<"q","u","i","t">>, <<"h","e","l","p"," ","m","e">>, <<"u","n","a","m","e"," ","-","a">>, <<"g","o"," ","t","o"," ","d","i","r","e","c","t","o","r","y"," ","/","h">>, <<"l","s","x">>,
    <<"l","i","s","t"," ","d","i","r","e","c","t","o","r","y">>, <<"C","o","p","y"," ","A"," ","t","o"," ","B">> }

NextDispatch == ExecuteIn(DispatchInputs, {0}, MaxHistShort)

SpecDispatch == InitWith(InitFiles, {TRUE, FALSE}) /\ [][NextDispatch]_vars

(***************************************************************************)
(* Specification SpecNlp: parse_nlp as a function.  The input is drawn at  *)
(* the start from canonical verbs and phrases in both letter cases, with   *)
(* and without arguments and blanks around them; it is translated, and the *)
(* translation is translated again.  command is the text handed to         *)
(* parse_nlp, result what it returns, trace the calls made so far.         *)
(***************************************************************************)

CanonicalVerbs ==
  { <<"t","o","u","c","h">>, <<"m","k","d","i","r">>, <<"r","m">>, <<"m","v">>, <<"c","p">>, <<"c","a","t">>, <<"l","s">>, <<"c","d">>, <<"p","w","d">>,
    <<"c","l","e","a","r">>, <<"e","x","i","t">>, <<"q","u","i","t">>, <<"h","e","l","p">> }

Phrases ==
  { <<"c","r","e","a","t","e"," ","f","i","l","e">>, <<"c","r","e","a","t","e"," ","f","o","l","d","e","r">>, <<"d","e","l","e","t","e"," ","f","i","l","e">>, <<"r","e","m","o","v","e"," ","f","i","l","e">>,
    <<"r","e","n","a","m","e"," ","f","i","l","e">>, <<"m","o","v","e">>, <<"c","o","p","y">>, <<"s","h","o","w"," ","c","o","n","t","e","n","t","s"," ","o","f">>,
    <<"l","i","s","t"," ","d","i","r","e","c","t","o","r","y">>, <<"g","o"," ","t","o"," ","d","i","r","e","c","t","o","r","y">>, <<"c","u","r","r","e","n","t"," ","d","i","r","e","c","t","o","r","y">>,
    <<"c","l","e","a","r"," ","s","c","r","e","e","n">> }

NlpHeads ==
  CanonicalVerbs \cup Phrases
    \cup { <<"E","X","I","T">>, <<"T","o","u","c","h">>, <<"C","o","p","y">>, <<"C","r","e","a","t","e"," ","F","i","l","e">>, <<"e","c","h","o">>, <<"C","l","e","a","r"," ","S","c","r","e","e","n">> }

NlpTails == { <<>>, <<" ","a">>, <<" ","A"," ","t","o"," ","B">>, <<" ","a"," "," ","t","o"," ","b"," ","c"," ">>, <<"x">>, <<" ","n","o","w">> }

NlpInputs ==
  { pre \o head \o tail : pre \in { <<>>, <<" "," ">> }, head \in NlpHeads,
                          tail \in NlpTails }

InitNlp ==
  /\ dirs = {<<>>, StartDir, Comps(HomeDir)}
  /\ files = <<>>
  /\ cwd = StartDir
  /\ lost = FALSE
  /\ history = <<>>
  /\ available = FALSE
  /\ command \in NlpInputs
  /\ result = NoneResult
  /\ trace = <<>>
  /\ inflight = [r \in Requests |-> Idle]

Translate ==
  /\ trace = <<>>
  /\ result' = StrResult(parse_nlp(command))
  /\ trace' = <<Ev("parse_nlp", command, <<>>)>>
  /\ UNCHANGED <<dirs, files, cwd, lost, history, available, command, inflight>>

Retranslate ==
  /\ Len(trace) = 1
  /\ command' = result.text
  /\ result' = StrResult(parse_nlp(result.text))
  /\ trace' = Append(trace, Ev("parse_nlp", result.text, <<>>))
  /\ UNCHANGED <<dirs, files, cwd, lost, history, available, inflight>>

NextNlp == IF trace = <<>> THEN Translate ELSE Retranslate

SpecNlp == InitNlp /\ [][NextNlp]_vars

(***************************************************************************)
(* Notions the properties share                                            *)
(***************************************************************************)

\* the text of the history file, empty when there is none
SinkText == IF HISTORY_FILE \in DOMAIN files THEN files[HISTORY_FILE] ELSE <<>>

\* the history file can be opened for writing in the current state
SinkWritable ==
  /\ HISTORY_FILE \notin dirs
  /\ \A k \in 0..(Len(HISTORY_FILE) - 1) :
       Take(HISTORY_FILE, k) \in dirs /\ Take(HISTORY_FILE, k) \notin DOMAIN files

NonBlank(c) == \E i \in 1..Len(c) : ~IsSpace(c[i])

\* the verb and the arguments of the command c once translated
TranslatedVerb(c) ==
  IF NonBlank(c) THEN Lower(Split(parse_nlp(c))[1]) ELSE <<>>

TranslatedArgs(c) ==
  IF NonBlank(c) THEN Tail(Split(parse_nlp(c))) ELSE <<>>

\* the command c is history -c
IsClear(c) ==
  /\ TranslatedVerb(c) = <<"h","i","s","t","o","r","y">>
  /\ TranslatedArgs(c) # <<>>
  /\ TranslatedArgs(c)[1] = <<"-","c">>

\* the length of "[YYYY-MM-DD HH:MM:SS] "
StampLen == 22

\* the verbs whose handlers write no file and leave self.history alone
ReadingVerbs == { <<"l","s">>, <<"p","w","d">>, <<"c","d">>, <<"c","a","t">>, <<"c","l","e","a","r">>, <<"e","x","i","t">>, <<"q","u","i","t">> }

\* the handler of the command c neither writes the history file nor moves it
SinkKept(c) ==
  \/ TranslatedVerb(c) \in ReadingVerbs \cup { <<"t","o","u","c","h">> }
  \/ TranslatedVerb(c) = <<"h","i","s","t","o","r","y">> /\ ~IsClear(c)

Calls(tr, fn) == {i \in 1..Len(tr) : tr[i].fn = fn}

\* the calls of execute that are not a handler nor the shell
Housekeeping == {"save_history", "safe_print", "parse_nlp", "except"}

\* the handlers and the shell called, in order
Handled(tr) == SelectSeq(tr, LAMBDA e : e.fn \notin Housekeeping)

ExitVerbs == { <<"e","x","i","t">>, <<"q","u","i","t">> }

(***************************************************************************)
(* C1                                                                      *)
(***************************************************************************)

\* what a call with a non-blank command does to self.history: one entry
\* more, whose text after the time stamp is the command as typed; or none at
\* all when the command is history -c, which clears the list after the append
MemoryAppend ==
  IF IsClear(command') THEN history' = <<>>
  ELSE /\ Len(history') = Len(history) + 1
       /\ SubSeq(history', 1, Len(history)) = history
       /\ Drop(history'[Len(history')], StampLen) = command'

\* what it does to the history file, for a command whose handler leaves
\* that file alone: the same entry, as one more line
SinkAppend ==
  SinkKept(command') =>
    /\ HISTORY_FILE \in DOMAIN files'
    /\ SinkText' = SinkText \o history'[Len(history')] \o NL

\* save_history is the first call and the only one of its kind, and
\* parse_nlp and the handler come after it
SavedFirst ==
  /\ trace' # <<>>
  /\ trace'[1] = Ev("save_history", command', <<>>)
  /\ Calls(trace', "save_history") = {1}
  /\ \A i \in Calls(trace', "parse_nlp") : i > 1

\* C1 as stated: every call with a non-blank command appends exactly one
\* entry, before translation and dispatch, to self.history and to the
\* history file, and the entry holds the command as typed.
C1_AppendsToMemoryAndSink ==
  [][NonBlank(command') => SavedFirst /\ MemoryAppend /\ SinkAppend]_vars

\* C1 (amended): every call with a non-blank command appends exactly one
\* entry to self.history, before translation and dispatch, and the entry
\* holds the command as typed; the same entry is appended to the history
\* file as one line when the file can be opened for append, and when it
\* cannot the file is left as it is.
C1_AppendsOnceBeforeTranslation ==
  [][NonBlank(command') =>
       /\ SavedFirst
       /\ MemoryAppend
       /\ SinkWritable => SinkAppend
       /\ ~SinkWritable /\ SinkKept(command') =>
            (HISTORY_FILE \in DOMAIN files') = (HISTORY_FILE \in DOMAIN files)
            /\ SinkText' = SinkText]_vars

\* a phrase has been executed: the entry holds the phrase, not its
\* translation, the file holds the entry, and the translation has run
C1_Witness ==
  /\ command = <<"c","r","e","a","t","e"," ","f","i","l","e"," ","x">>
  /\ history # <<>>
  /\ Drop(history[Len(history)], StampLen) = <<"c","r","e","a","t","e"," ","f","i","l","e"," ","x">>
  /\ Len(SinkText) > Len(history[Len(history)])
  /\ Drop(SinkText, Len(SinkText) - Len(history[Len(history)]) - 1)
       = history[Len(history)] \o NL
  /\ Append(StartDir, <<"x">>) \in DOMAIN files

\* the history file cannot be written, a command has been executed all the
\* same: self.history holds its entry and the file of the former session,
\* moved with its directory, does not
C1_SinkLost ==
  /\ ~SinkWritable
  /\ command = <<"p","w","d">>
  /\ Calls(trace, "safe_print") = {2}
  /\ history # <<>>
  /\ Drop(history[Len(history)], StampLen) = <<"p","w","d">>
  /\ SinkText = <<>>

(***************************************************************************)
(* C2                                                                      *)
(***************************************************************************)

C3_ClearThenHistoryEmpty ==
  [][/\ IsClear(command') => history' = <<>> /\ SinkText' = <<>>
     /\ IsClear(command) /\ command' = <<"h","i","s","t","o","r","y">> => result'.text = <<>>]_vars

\* C3 (amended): after history -c, self.history is empty, and the history
\* file is empty when it could be truncated; the history command that
\* follows at once returns one line, the entry of that history command
\* itself, which is then the only entry of self.history.
C3_ClearThenHistoryShowsItself ==
  [][/\ IsClear(command') =>
          /\ history' = <<>>
          /\ IF result' = StrResult(<<"H","i","s","t","o","r","y"," ","c","l","e","a","r","e","d">>)
             THEN HISTORY_FILE \in DOMAIN files' /\ files'[HISTORY_FILE] = <<>>
             ELSE Calls(trace', "except") # {} /\ ~SinkWritable
     /\ IsClear(command) /\ command' = <<"h","i","s","t","o","r","y">> =>
          /\ Len(history') = 1
          /\ Drop(history'[1], StampLen) = <<"h","i","s","t","o","r","y">>
          /\ result' = StrResult(history'[1])
          /\ SinkWritable => SinkText' = history'[1] \o NL]_vars

\* history has been executed right after history -c had emptied a log that
\* held entries: what it returns is its own entry
C3_Witness ==
  /\ command = <<"h","i","s","t","o","r","y">>
  /\ Len(history) = 1
  /\ result = StrResult(history[1])
  /\ SinkText = history[1] \o NL
  /\ Drop(history[1], StampLen) = <<"h","i","s","t","o","r","y">>

(***************************************************************************)
(* C4                                                                      *)
(***************************************************************************)

\* C4 as stated: execute returns the value that run() takes for the end
\* of the session only when the translated verb is exit or quit; no other
\* command returns a result equal to it.
C4_ExitSignalOnlyFromExit ==
  IsExitSignal(result) => TranslatedVerb(command) \in ExitVerbs

(***************************************************************************)
(* C5                                                                      *)
(***************************************************************************)

\* C5: for every input whose first token is exit or quit in any letter
\* case, with any arguments after it, execute returns the exit signal and
\* calls neither a handler nor the shell.
C5_ExitShortCircuits ==
  [][(NonBlank(command') /\ Lower(Split(command')[1]) \in ExitVerbs) =>
       /\ IsExitSignal(result')
       /\ Handled(trace') = <<>>
       /\ Calls(trace', "except") = {}
       /\ dirs' = dirs /\ cwd' = cwd
       /\ DOMAIN files' \subseteq DOMAIN files \cup {HISTORY_FILE}]_vars

\* quit has been executed with a capital and an argument after a command
\* that was not the end of the session
C5_Witness ==
  /\ command = <<"Q","u","i","t"," ","n","o","w">>
  /\ IsExitSignal(result)
  /\ Len(history) = 2
  /\ Drop(history[1], StampLen) = <<"p","w","d">>
  /\ Drop(history[2], StampLen) = <<"Q","u","i","t"," ","n","o","w">>

(***************************************************************************)
(* C6                                                                      *)
(***************************************************************************)

\* C6: execute never lets a failure of a handler out: what it returns is
\* a text (or None for a blank line), and when the handler raised, the
\* text is "Error: " and the description of the failure; the call after
\* a failure is served as any other: pwd answers the working directory.
C6_FailuresBecomeText ==
  [][/\ result'.kind \in {"str", "none"}
     /\ Calls(trace', "except") # {} =>
          /\ Calls(trace', "except") = {Len(trace')}
          /\ Handled(trace') # <<>>
          /\ result' = StrResult(<<"E","r","r","o","r",":"," ">> \o trace'[Len(trace')].text)
     /\ (Calls(trace, "except") # {} /\ command' = <<"p","w","d">>) =>
          result' = StrResult(PathStr(cwd))]_vars

\* mv with a missing source has failed and is answered with the text
C6_Witness ==
  /\ command = <<"m","v"," ","x"," ","y">>
  /\ Handled(trace) = <<Ev("cmd_mv", <<>>, << <<"x">>, <<"y">> >>)>>
  /\ result = StrResult(<<"E","r","r","o","r",":"," ">> \o ENOENT)
  /\ Append(StartDir, <<"y">>) \notin DOMAIN files

\* history -c has failed on a history file that cannot be written
C6_SinkFailure ==
  /\ command = <<"h","i","s","t","o","r","y"," ","-","c">>
  /\ ~SinkWritable
  /\ StartsWith(result.text, <<"E","r","r","o","r",":"," ">>)
  /\ Calls(trace, "except") # {}

(***************************************************************************)
(* C8                                                                      *)
(***************************************************************************)

FileNames == { <<"x">>, <<"X">>, <<"d","/","x">>, <<"A","b">> }

\* the files of w other than the history file
OtherFiles(w) == [p \in DOMAIN w.files \ {HISTORY_FILE} |-> w.files[p]]

\* C8 as stated: from any state, create file p and touch p return the same
\* result and leave the same directories, the same files (the history file
\* apart) and the same working directory, for every file name p.
C8_CreateFileIsTouch ==
  \A p \in FileNames :
    \E a \in {execute(World, available, QuietEnv, <<"c","r","e","a","t","e"," ","f","i","l","e"," ">> \o p, 0)},
       b \in {execute(World, available, QuietEnv, <<"t","o","u","c","h"," ">> \o p, 0)} :
      /\ a.out = b.out
      /\ a.w.dirs = b.w.dirs
      /\ a.w.cwd = b.w.cwd
      /\ OtherFiles(a.w) = OtherFiles(b.w)

(***************************************************************************)
(* C7                                                                      *)
(***************************************************************************)

FirstToken(c) == Split(c)[1]

\* the translation of a translation is that translation
Idempotent == Len(trace) = 2 => result.text = command

\* C7 as stated: parse_nlp returns unchanged every input whose first token
\* is a canonical verb, whatever follows it; and parse_nlp(parse_nlp(x)) =
\* parse_nlp(x) for every x.
C7_CanonicalUnchanged ==
  /\ (Len(trace) = 1 /\ FirstToken(command) \in CanonicalVerbs) =>
       result.text = command
  /\ Idempotent

\* the canonical verbs that start no pattern
UnmatchedVerbs == CanonicalVerbs \ { <<"c","l","e","a","r">>, <<"e","x","i","t">>, <<"q","u","i","t">>, <<"h","e","l","p">> }

\* C7 (amended): parse_nlp returns unchanged every input whose first token
\* is, in any letter case, one of touch, mkdir, rm, mv, cp, cat, ls, cd and
\* pwd, or is clear not followed by " screen"; an input that begins, blanks
\* and letter case apart, with exit, quit or help is rewritten to that bare
\* word, and one that begins with "clear screen" to clear; and
\* parse_nlp(parse_nlp(x)) = parse_nlp(x) for every x.
C7_UnmatchedVerbsUnchanged ==
  /\ Len(trace) = 1 =>
       /\ Lower(FirstToken(command)) \in UnmatchedVerbs => result.text = command
       /\ (Lower(FirstToken(command)) = <<"c","l","e","a","r">>
             /\ ~StartsWith(Lower(Strip(command)), <<"c","l","e","a","r"," ","s","c","r","e","e","n">>)) =>
            result.text = command
       /\ \A v \in { <<"e","x","i","t">>, <<"q","u","i","t">>, <<"h","e","l","p">> } :
            StartsWith(Lower(Strip(command)), v) => result.text = v
       /\ StartsWith(Lower(Strip(command)), <<"c","l","e","a","r"," ","s","c","r","e","e","n">>) =>
            result.text = <<"c","l","e","a","r">>
  /\ Idempotent

\* a canonical verb in another letter case, with blanks before it and
\* arguments after it, has been translated and is unchanged
C7_Witness ==
  /\ Len(trace) = 1
  /\ command = <<" "," ","T","o","u","c","h"," ","A"," ","t","o"," ","B">>
  /\ result.text = command

\* exit with an argument has been translated to the bare exit
C7_ExitRewritten ==
  /\ Len(trace) = 1
  /\ command = <<"e","x","i","t"," ","n","o","w">>
  /\ result.text = <<"e","x","i","t">>

\* the translation of a phrase has been translated again and is unchanged
C7_Twice ==
  /\ Len(trace) = 2
  /\ trace[1].text = <<" "," ","C","o","p","y"," ","A"," ","t","o"," ","B">>
  /\ command = <<"c","p"," ","a"," ","b">>
  /\ result.text = <<"c","p"," ","a"," ","b">>

(***************************************************************************)
(* C9                                                                      *)
(***************************************************************************)

\* the verb of each template, in the order of the patterns
TemplateVerbs ==
  << <<"t","o","u","c","h">>, <<"m","k","d","i","r">>, <<"r","m">>, <<"r","m">>, <<"m","v">>, <<"m","v">>, <<"c","p">>, <<"c","a","t">>, <<"l","s">>, <<"c","d">>,
     <<"p","w","d">>, <<"c","l","e","a","r">>, <<"e","x","i","t">>, <<"q","u","i","t">>, <<"h","e","l","p">> >>

\* the patterns that match at the start of the working copy of c
Matching(c) ==
  {i \in 1..Len(nlp_patterns) : ReMatch(nlp_patterns[i].re, Lower(Strip(c))).ok}

\* C9: parse_nlp returns the rewrite of the first pattern, in the order of
\* declaration, that matches at the start of the lowercased and trimmed
\* input: the verb of its template followed by the captured groups in
\* their order; when no pattern matches it returns the input as given,
\* letter case and blanks included.
C9_FirstMatchRewrites ==
  Len(trace) >= 1 =>
    IF Matching(command) = {} THEN result.text = command
    ELSE LET i == CHOOSE k \in Matching(command) :
                    \A j \in Matching(command) : k <= j
             g == ReMatch(nlp_patterns[i].re, Lower(Strip(command))).groups
         IN  result.text = Join(<<TemplateVerbs[i]>> \o g, <<" ">>)

\* a phrase with capitals and blanks before it has been rewritten by the
\* seventh pattern, the two groups lowercased and in their order
C9_Witness ==
  /\ Len(trace) = 1
  /\ command = <<" "," ","C","o","p","y"," ","A"," ","t","o"," ","B">>
  /\ Matching(command) = {7}
  /\ result.text = <<"c","p"," ","a"," ","b">>

\* a phrase that no pattern matches, for the two blanks before its "to",
\* has been returned as given
C9_Unmatched ==
  /\ Len(trace) = 1
  /\ command = <<" "," ","r","e","n","a","m","e"," ","f","i","l","e"," ","a"," "," ","t","o"," ","b"," ","c"," ">>
  /\ Matching(command) = {}
  /\ result.text = command

\* the input matched and what follows the groups has been dropped
C9_RestDropped ==
  /\ Len(trace) = 1
  /\ command = <<"c","r","e","a","t","e"," ","f","i","l","e"," ","a"," "," ","t","o"," ","b"," ","c"," ">>
  /\ result.text = <<"t","o","u","c","h"," ","a">>

(***************************************************************************)
(* C10                                                                     *)
(***************************************************************************)

\* the handlers that are given the remaining tokens, by verb
ArgHandlers ==
  << <<<<"l","s">>, "cmd_ls">>, <<<<"c","d">>, "cmd_cd">>, <<<<"m","k","d","i","r">>, "cmd_mkdir">>,
     <<<<"r","m","d","i","r">>, "cmd_rmdir">>, <<<<"r","m">>, "cmd_rm">>, <<<<"t","o","u","c","h">>, "cmd_touch">>,
     <<<<"m","v">>, "cmd_mv">>, <<<<"c","p">>, "cmd_cp">>, <<<<"c","a","t">>, "cmd_cat">>,
     <<<<"e","c","h","o">>, "cmd_echo">>, <<<<"h","i","s","t","o","r","y">>, "cmd_history">> >>

\* the handlers that take no argument, by verb
PlainHandlers ==
  << <<<<"p","w","d">>, "cmd_pwd">>, <<<<"c","p","u">>, "cmd_cpu">>, <<<<"m","e","m","o","r","y">>, "cmd_memory">>,
     <<<<"p","r","o","c","e","s","s","e","s">>, "cmd_processes">> >>

\* C10: when the case-folded first token of the translated command is a
\* built-in verb, the handler of that verb and nothing else is called, once,
\* with the remaining tokens if it takes arguments (clear is the screen
\* clear of the host, exit and quit call nothing), and the shell is not
\* called; for any other first token the shell is called once with the
\* whole translated text and no handler is called.
C10_OneHandlerOrShell ==
  NonBlank(command) =>
    LET v == TranslatedVerb(command)
        a == TranslatedArgs(command)
        h == Handled(trace)
    IN  IF \E k \in DOMAIN ArgHandlers : ArgHandlers[k][1] = v
        THEN \E k \in DOMAIN ArgHandlers :
               ArgHandlers[k][1] = v /\ h = <<Ev(ArgHandlers[k][2], <<>>, a)>>
        ELSE IF \E k \in DOMAIN PlainHandlers : PlainHandlers[k][1] = v
        THEN \E k \in DOMAIN PlainHandlers :
               PlainHandlers[k][1] = v /\ h = <<Ev(PlainHandlers[k][2], <<>>, <<>>)>>
        ELSE IF v = <<"c","l","e","a","r">> THEN h = <<Ev("os.system", <<"c","l","e","a","r">>, <<>>)>>
        ELSE IF v \in ExitVerbs THEN h = <<>>
        ELSE h = <<Ev("system_command", parse_nlp(command), <<>>)>>

\* a phrase in capitals has been translated and its handler called with
\* the two names
C10_Witness ==
  /\ command = <<"C","o","p","y"," ","A"," ","t","o"," ","B">>
  /\ Handled(trace) = <<Ev("cmd_cp", <<>>, << <<"a">>, <<"b">> >>)>>
  /\ Drop(history[Len(history)], StampLen) = <<"C","o","p","y"," ","A"," ","t","o"," ","B">>

\* a command that is not a built-in has gone to the shell as translated
C10_ShellCalled ==
  /\ command = <<"h","e","l","p"," ","m","e">>
  /\ Handled(trace) = <<Ev("system_command", <<"h","e","l","p">>, <<>>)>>
  /\ result = StrResult(<<"e","x","i","t">>)

(***************************************************************************)
(* C11                                                                     *)
(***************************************************************************)

(***************************************************************************)
(* Specification SpecCd: a session of cd to directories, to a file, to     *)
(* names that do not exist, relative and absolute, in a tree that grows    *)
(* and whose start directory is renamed; the working directory is never    *)
(* removed.                                                                *)
(***************************************************************************)

CdInputs ==
  { <<"c","d"," ","d">>, <<"c","d"," ","n","o","w","h","e","r","e">>, <<"c","d"," ","t","e","r","m","i","n","a","l","_","h","i","s","t","o","r","y",".","t","x","t">>, <<"c","d"," ",".",".">>,
    <<"C","D"," ","~">>, <<"c","d">>, <<"g","o"," ","t","o"," ","d","i","r","e","c","t","o","r","y"," ","D">>, <<"m","k","d","i","r"," ","/","w","/","d">>,
    <<"m","v"," ","/","w"," ","/","v">>, <<"h","i","s","t","o","r","y"," ","-","c">>, <<"p","w","d">> }

NextCd == ExecuteIn(CdInputs, {0}, MaxHistShort)

SpecCd == InitWith(InitFiles, {FALSE}) /\ [][NextCd]_vars

\* the command c is cd with an argument
IsCd(c) == TranslatedVerb(c) = <<"c","d">> /\ TranslatedArgs(c) # <<>>

\* the normalized text of the first argument of c in the current state
Target(c) == normalize_path(World, TranslatedArgs(c)[1]).text

\* the world a handler finds: the current one with the history file written
Saved(c) == save_history(World, c, 0)

\* the target of cd exists and is a directory when cd looks at it
TargetIsDir(c) == IsDirPath(Saved(c), Comps(Target(c)))

C11_NotADirectory ==
  /\ command = <<"c","d"," ","t","e","r","m","i","n","a","l","_","h","i","s","t","o","r","y",".","t","x","t">>
  /\ cwd = StartDir
  /\ result = StrResult(<<"c","d",":"," ","'","/","w","/","t","e","r","m","i","n","a","l","_","h","i","s","t","o","r","y",".","t","x","t","'"," ","i","s"," ","n","o","t"," ","a"," ","d","i","r","e","c","t","o","r","y">>)

\* cd has succeeded
C11_Changed ==
  /\ command = <<"g","o"," ","t","o"," ","d","i","r","e","c","t","o","r","y"," ","D">>
  /\ cwd = << <<"w">>, <<"d">> >>
  /\ result = StrResult(<<"C","h","a","n","g","e","d"," ","d","i","r","e","c","t","o","r","y"," ","t","o"," ","'","/","w","/","d","'">>)

(***************************************************************************)
(* C12                                                                     *)
(***************************************************************************)

(***************************************************************************)
(* Specification SpecCwd: a session with a command for each kind of verb,  *)
(* translated phrases and shell commands, among them the commands that     *)
(* rename, remove and replace the directory the process is in.             *)
(***************************************************************************)

CwdInputs ==
  { <<"g","o"," ","t","o"," ","d","i","r","e","c","t","o","r","y"," ","d">>, <<"c","d"," ","n","o","w","h","e","r","e">>, <<"c","d"," ","/","w">>, <<"m","k","d","i","r"," ","/","w","/","d">>,
    <<"r","m","d","i","r"," ","/","w","/","d">>, <<"m","v"," ","/","w"," ","/","v">>, <<"p","w","d">>, <<"t","o","u","c","h"," ","/","h","/","x">>, <<"h","i","s","t","o","r","y"," ","-","c">>,
    <<"s","h"," ","-","c"," ","c","d">> }

NextCwd == ExecuteIn(CwdInputs, {0}, MaxHistShort)

SpecCwd == InitWith({<<>>}, {FALSE}) /\ [][NextCwd]_vars

\* the normalized second argument of c in the current state
Target2(c) == normalize_path(World, TranslatedArgs(c)[2]).text

\* cd has succeeded
CdDone ==
  /\ IsCd(command')
  /\ TargetIsDir(command')
  /\ cwd' = Comps(Target(command')) /\ ~lost'

\* mv has renamed the directory the process is in, or one above it: the
\* process is in the same directory, under its new name
MvRenamed ==
  /\ TranslatedVerb(command') = <<"m","v">> /\ Len(TranslatedArgs(command')) >= 2
  /\ Handled(trace') # <<>> /\ Calls(trace', "except") = {}
  /\ ~lost /\ ~lost'
  /\ IsPrefix(Comps(Target(command')), cwd)
  /\ cwd' = Reroot(cwd, Comps(Target(command')), Comps(Target2(command')))

\* rmdir has removed the directory the process is in: the process is in a
\* directory that no path names
CwdRemoved ==
  /\ ~lost /\ lost'
  /\ Calls(trace', "except") = {}
  /\ TranslatedVerb(command') = <<"r","m","d","i","r">>
  /\ cwd \notin dirs' /\ cwd \in dirs

C12_Removed ==
  /\ lost
  /\ command = <<"p","w","d">>
  /\ result = StrResult(<<"E","r","r","o","r",":"," ">> \o ENOENT)

\* a command has been handed to the shell in a directory other than the
\* start directory, and the process is where it was
C12_ShellKeeps ==
  /\ command = <<"s","h"," ","-","c"," ","c","d">>
  /\ Handled(trace) # <<>> /\ Handled(trace)[1].fn = "system_command"
  /\ cwd = << <<"v">>, <<"d">> >>

(***************************************************************************)
(* C13: rm and directories                                                 *)
(***************************************************************************)

RmInputs ==
  { <<"m","k","d","i","r"," ","/","w","/","d">>, <<"t","o","u","c","h"," ","/","w","/","d","/","x"," ","/","w","/","x">>, <<"r","m"," ","/","w","/","d"," ","/","w","/","x">>, <<"r","m"," ","/","w","/","x"," ","/","w"," ","/","w","/","n">>,
    <<"d","e","l","e","t","e"," ","f","i","l","e"," ","D">>, <<"r","m"," ","/","w","/","d","/","x">>, <<"l","s"," ","/","w","/","d">>, <<"h","i","s","t","o","r","y"," ","-","c">> }

NextRm == ExecuteIn(RmInputs, {0}, MaxHist)

SpecRm == InitWith(InitFiles, {FALSE}) /\ [][NextRm]_vars

\* the normalized path of the i-th argument of the command c
TargetOf(c, i) == normalize_path(World, TranslatedArgs(c)[i]).text

\* what rm answers for the i-th argument of c: a directory is refused, a
\* file is removed unless an earlier argument has removed it, and any other
\* name is not found
RmLine(c, i) ==
  LET t == TargetOf(c, i)
  IN  IF IsDirPath(Saved(c), Comps(t))
      THEN <<"r","m",":"," ","'">> \o t \o <<"'"," ","i","s"," ","a"," ","d","i","r","e","c","t","o","r","y"," ","(","u","s","e"," ","r","m","d","i","r",")">>
      ELSE IF /\ IsFilePath(Saved(c), Comps(t))
              /\ \A j \in 1..(i - 1) : TargetOf(c, j) # t
      THEN <<"F","i","l","e"," ","'">> \o t \o <<"'"," ","r","e","m","o","v","e","d"," ","s","u","c","c","e","s","s","f","u","l","l","y">>
      ELSE <<"r","m",":"," ","'">> \o t \o <<"'"," ","n","o","t"," ","f","o","u","n","d">>

\* C13: rm refuses a directory.  For every argument that names a directory
\* the answer has the line "rm: '<path>' is a directory (use rmdir)", the
\* directory and all below it stay as they were (but for a file that another
\* argument of the command names), and the other arguments of the same
\* command are processed as usual: files among them are removed, and the
\* answer has one line per argument, in order.
C13_RmRefusesDirectories ==
  [][(TranslatedVerb(command') = <<"r","m">> /\ TranslatedArgs(command') # <<>> /\ ~lost)
       => LET c == command'
              args == TranslatedArgs(c)
          IN  /\ result' = StrResult(Join([i \in DOMAIN args |-> RmLine(c, i)], NL))
              /\ dirs' = dirs
              /\ \A i \in DOMAIN args :
                   LET p == Comps(TargetOf(c, i))
                   IN  IF IsDirPath(Saved(c), p)
                       THEN \A q \in DOMAIN Saved(c).files :
                              (/\ IsPrefix(p, q)
                               /\ \A j \in DOMAIN args : Comps(TargetOf(c, j)) # q)
                                => /\ q \in DOMAIN files'
                                   /\ files'[q] = Saved(c).files[q]
                       ELSE p \notin DOMAIN files']_vars

\* rm of a directory that holds a file, and of a file, in one command: the
\* directory and the file in it are there, the other file is gone
C13_Witness ==
  /\ command = <<"r","m"," ","/","w","/","d"," ","/","w","/","x">>
  /\ result = StrResult(<<"r","m",":"," ","'","/","w","/","d","'"," ","i","s"," ","a"," ","d","i","r","e","c","t","o","r","y"," ","(","u","s","e"," ","r","m","d","i","r",")">> \o NL
                        \o <<"F","i","l","e"," ","'","/","w","/","x","'"," ","r","e","m","o","v","e","d"," ","s","u","c","c","e","s","s","f","u","l","l","y">>)
  /\ << <<"w">>, <<"d">> >> \in dirs
  /\ << <<"w">>, <<"d">>, <<"x">> >> \in DOMAIN files
  /\ << <<"w">>, <<"x">> >> \notin DOMAIN files

\* the directory comes second and a missing name third
C13_DirectoryInTheMiddle ==
  /\ command = <<"r","m"," ","/","w","/","x"," ","/","w"," ","/","w","/","n">>
  /\ result = StrResult(<<"F","i","l","e"," ","'","/","w","/","x","'"," ","r","e","m","o","v","e","d"," ","s","u","c","c","e","s","s","f","u","l","l","y">> \o NL
                        \o <<"r","m",":"," ","'","/","w","'"," ","i","s"," ","a"," ","d","i","r","e","c","t","o","r","y"," ","(","u","s","e"," ","r","m","d","i","r",")">> \o NL
                        \o <<"r","m",":"," ","'","/","w","/","n","'"," ","n","o","t"," ","f","o","u","n","d">>)
  /\ HISTORY_FILE \in DOMAIN files

(***************************************************************************)
(* C14: echo to a file, and cat                                            *)
(***************************************************************************)

EchoInputs ==
  { <<"e","c","h","o"," ","a"," ","b"," ",">"," ","/","w","/","f">>, <<"e","c","h","o"," ","a"," "," ","b"," ",">"," ","/","w","/","f">>, <<"e","c","h","o"," ","c"," ",">"," ","/","w","/","f">>,
    <<"e","c","h","o"," ","u"," ",">",">"," ","/","w","/","f">>, <<"e","c","h","o"," ","u"," ",">",">"," ","/","w","/","t","e","r","m","i","n","a","l","_","h","i","s","t","o","r","y",".","t","x","t">>,
    <<"c","a","t"," ","/","w","/","f">>, <<"h","i","s","t","o","r","y"," ","-","c">>, <<"e","c","h","o"," ","a"," ",">"," ","b"," ",">"," ","c">> }

NextEcho == ExecuteIn(EchoInputs, {0}, MaxHist)

SpecEcho == InitWith({<<>>}, {FALSE}) /\ [][NextEcho]_vars

\* the command c is typed as  echo t op f : the text t has no '>', the name
\* f has neither '>' nor a blank
EchoForm(c, op) ==
  LET i == Find(c, <<" ">> \o op \o <<" ">>)
  IN  /\ StartsWith(c, <<"e","c","h","o"," ">>)
      /\ i >= 4
      /\ ~Contains(Take(c, i), <<">">>)
      /\ ~Contains(Drop(c, i + Len(op) + 2), <<">">>)
      /\ ~Contains(Drop(c, i + Len(op) + 2), <<" ">>)
      /\ Len(c) > i + Len(op) + 2

\* the t and the f of such a command, as typed
EchoText(c, op) == Drop(Take(c, Find(c, <<" ">> \o op \o <<" ">>)), 5)

EchoFile(c, op) == Drop(c, Find(c, <<" ">> \o op \o <<" ">>) + Len(op) + 2)

EchoPath(c, op) == Comps(normalize_path(World, EchoFile(c, op)).text)

\* the text t is words with one blank between them
SingleSpaced(t) == Join(Split(t), <<" ">>) = t

\* what the file at p holds before the handler runs
Previous(c, p) ==
  IF p \in DOMAIN Saved(c).files THEN Saved(c).files[p] ELSE <<>>

\* the command c is  cat f  for an existing file f
CatForm(c) ==
  /\ StartsWith(c, <<"c","a","t"," ">>)
  /\ Len(Split(c)) = 2
  /\ IsFilePath(Saved(c), Comps(normalize_path(World, Split(c)[2]).text))

\* C14 as stated, for any text t: after  echo t > f  the file holds t and a
\* line break; after  echo u >> f  it holds what it held, u and a line
\* break; cat f returns what f holds.
C14_EchoWritesTextExactly ==
  [][LET c == command'
     IN  /\ (EchoForm(c, <<">">>) /\ OpenErr(Saved(c), EchoPath(c, <<">">>)) = EOK)
              => /\ EchoPath(c, <<">">>) \in DOMAIN files'
                 /\ files'[EchoPath(c, <<">">>)] = EchoText(c, <<">">>) \o NL
         /\ (EchoForm(c, <<">", ">">>) /\ OpenErr(Saved(c), EchoPath(c, <<">", ">">>)) = EOK)
              => /\ EchoPath(c, <<">", ">">>) \in DOMAIN files'
                 /\ files'[EchoPath(c, <<">", ">">>)]
                      = IF EchoPath(c, <<">", ">">>) \in DOMAIN files
                        THEN files[EchoPath(c, <<">", ">">>)] \o EchoText(c, <<">", ">">>) \o NL
                        ELSE EchoText(c, <<">", ">">>) \o NL]_vars

\* C14: for a text t of words with one blank between them (echo joins its
\* arguments with single blanks, so runs of blanks in t are not kept) and a
\* file f that can be opened: after  echo t > f  the file holds exactly t and
\* a line break, whatever it held; after  echo u >> f, u such a text, it
\* holds what it held when the handler ran, then u and a line break (for the
\* history file that is with the entry of this very command); and  cat f
\* returns what f holds.
C14_EchoWritesJoinedWords ==
  [][LET c == command'
     IN  /\ (/\ EchoForm(c, <<">">>) /\ SingleSpaced(EchoText(c, <<">">>))
             /\ OpenErr(Saved(c), EchoPath(c, <<">">>)) = EOK)
              => /\ EchoPath(c, <<">">>) \in DOMAIN files'
                 /\ files'[EchoPath(c, <<">">>)] = EchoText(c, <<">">>) \o NL
                 /\ result' = StrResult(<<"T","e","x","t"," ","w","r","i","t","t","e","n"," ","t","o"," ","'">> \o PathStr(EchoPath(c, <<">">>))
                                        \o <<"'"," ","s","u","c","c","e","s","s","f","u","l","l","y">>)
         /\ (/\ EchoForm(c, <<">", ">">>) /\ SingleSpaced(EchoText(c, <<">", ">">>))
             /\ OpenErr(Saved(c), EchoPath(c, <<">", ">">>)) = EOK)
              => /\ EchoPath(c, <<">", ">">>) \in DOMAIN files'
                 /\ files'[EchoPath(c, <<">", ">">>)]
                      = Previous(c, EchoPath(c, <<">", ">">>))
                          \o EchoText(c, <<">", ">">>) \o NL
         /\ CatForm(c)
              => result' = StrResult(Saved(c).files[
                               Comps(normalize_path(World, Split(c)[2]).text)])]_vars

\* echo a b > f over a file that held something else, then echo u >> f, then
\* cat f
C14_Witness ==
  /\ command = <<"c","a","t"," ","/","w","/","f">>
  /\ result = StrResult(<<"a"," ","b">> \o NL \o <<"u">> \o NL)
  /\ files[<< <<"w">>, <<"f">> >>] = <<"a"," ","b">> \o NL \o <<"u">> \o NL

\* two blanks typed, one written
C14_BlanksJoined ==
  /\ command = <<"e","c","h","o"," ","a"," "," ","b"," ",">"," ","/","w","/","f">>
  /\ files[<< <<"w">>, <<"f">> >>] = <<"a"," ","b">> \o NL

(***************************************************************************)
(* C15: mkdir with parents, twice, and ls                                  *)
(***************************************************************************)

MkdirInputs ==
  { <<"m","k","d","i","r"," ","a","/","b","/","c">>, <<"m","a","k","e"," ","f","o","l","d","e","r"," ","A","/","B">>, <<"m","k","d","i","r"," ","/","w","/","a","/","b","/","c"," ","/","h","/","d">>, <<"l","s"," ","a","/","b">>,
    <<"l","s"," ","a">>, <<"t","o","u","c","h"," ","a">>, <<"r","m"," ","a">>, <<"t","o","u","c","h"," ","a","/","b","/","x">>, <<"h","i","s","t","o","r","y"," ","-","c">> }

NextMkdir == ExecuteIn(MkdirInputs, {0}, MaxHist)

SpecMkdir == InitWith({<<>>}, {FALSE}) /\ [][NextMkdir]_vars

\* no regular file is in the way of the directory p
NoFileOn(c, p) == \A q \in Prefixes(p) : q \notin DOMAIN Saved(c).files

\* C15: mkdir creates each path given with every missing directory above
\* it, unless a regular file is in the way, and confirms each; on paths that
\* are directories already it succeeds as well and leaves the tree as it is.
\* ls of a directory returns the names of its entries, each once: after
\* mkdir a/b/c in a tree without a, ls a/b returns c.
C15_MkdirCreatesParentsIdempotently ==
  [][LET c == command'
         args == TranslatedArgs(c)
         verb == TranslatedVerb(c)
     IN  /\ (/\ verb = <<"m","k","d","i","r">> /\ args # <<>>
             /\ \A i \in DOMAIN args : NoFileOn(c, Comps(TargetOf(c, i))))
              => /\ result' = StrResult(Join(
                      [i \in DOMAIN args |->
                         <<"D","i","r","e","c","t","o","r","y"," ","'">> \o TargetOf(c, i)
                           \o <<"'"," ","c","r","e","a","t","e","d"," ","s","u","c","c","e","s","s","f","u","l","l","y">>], NL))
                 /\ dirs' = dirs \cup UNION {Prefixes(Comps(TargetOf(c, i))) :
                                              i \in DOMAIN args}
                 /\ files' = Saved(c).files
                 /\ (\A i \in DOMAIN args : Comps(TargetOf(c, i)) \in dirs)
                      => dirs' = dirs
         /\ (/\ verb = <<"l","s">> /\ Len(args) = 1
             /\ IsDirPath(Saved(c), Comps(TargetOf(c, 1)))
             /\ Children(Saved(c), Comps(TargetOf(c, 1))) # {})
              => LET lines == SplitOn(result'.text, NL)
                 IN  /\ result'.kind = "str"
                     /\ {lines[i] : i \in DOMAIN lines}
                          = Children(Saved(c), Comps(TargetOf(c, 1)))
                     /\ Len(lines)
                          = Cardinality(Children(Saved(c), Comps(TargetOf(c, 1))))]_vars

\* mkdir a/b/c in the start directory, then ls a/b
C15_Witness ==
  /\ history = << Entry(<<"m","k","d","i","r"," ","a","/","b","/","c">>, 0), Entry(<<"l","s"," ","a","/","b">>, 0) >>
  /\ result = StrResult(<<"c">>)
  /\ << <<"w">>, <<"a">>, <<"b">>, <<"c">> >> \in dirs

\* the same mkdir twice over: the second is confirmed as the first was
C15_Repeated ==
  /\ history = << Entry(<<"m","k","d","i","r"," ","a","/","b","/","c">>, 0), Entry(<<"m","k","d","i","r"," ","a","/","b","/","c">>, 0) >>
  /\ result = StrResult(<<"D","i","r","e","c","t","o","r","y"," ","'","/","w","/","a","/","b","/","c","'"," ","c","r","e","a","t","e","d"," ","s","u","c","c","e","s","s","f","u","l","l","y">>)

\* a regular file a is in the way
C15_FileInTheWay ==
  /\ command = <<"m","k","d","i","r"," ","a","/","b","/","c">>
  /\ result.kind = "str" /\ StartsWith(result.text, <<"E","r","r","o","r",":"," ">>)

(***************************************************************************)
(* C16: the number of arguments of mv and cp                               *)
(***************************************************************************)

ArityInputs ==
  { <<"t","o","u","c","h"," ","/","w","/","x">>, <<"m","v"," ","/","w","/","x"," ","/","w","/","y"," ","/","w","/","z">>, <<"c","p"," ","/","w","/","x"," ","/","w","/","y"," ","/","w","/","z">>, <<"m","v"," ","/","w","/","x">>,
    <<"c","p">>, <<"m","o","v","e"," ","/","w","/","y">>, <<"r","m"," ","/","w","/","x"," ","/","w","/","y">>, <<"h","i","s","t","o","r","y"," ","-","c">> }

NextArity == ExecuteIn(ArityInputs, {0}, MaxHist)

SpecArity == InitWith({<<>>}, {FALSE}) /\ [][NextArity]_vars

\* C16: mv and cp with a number of arguments other than two answer with the
\* arity message and leave the file tree as it is.
C16_ArityErrorUnlessTwo ==
  [][(/\ TranslatedVerb(command') \in {<<"m","v">>, <<"c","p">>}
      /\ Len(TranslatedArgs(command')) # 2)
       => /\ result' = StrResult(TranslatedVerb(command')
                                 \o <<":"," ","m","i","s","s","i","n","g"," ","s","o","u","r","c","e","/","d","e","s","t","i","n","a","t","i","o","n">>)
          /\ dirs' = dirs
          /\ files' = Saved(command').files]_vars

\* with fewer than two arguments they do so
C16_TooFew ==
  [][(/\ TranslatedVerb(command') \in {<<"m","v">>, <<"c","p">>}
      /\ Len(TranslatedArgs(command')) < 2)
       => /\ result' = StrResult(TranslatedVerb(command')
                                 \o <<":"," ","m","i","s","s","i","n","g"," ","s","o","u","r","c","e","/","d","e","s","t","i","n","a","t","i","o","n">>)
          /\ dirs' = dirs
          /\ files' = Saved(command').files]_vars

\* mv with three arguments has renamed the first to the second
C16_ThreeArgumentsRenamed ==
  /\ command = <<"m","v"," ","/","w","/","x"," ","/","w","/","y"," ","/","w","/","z">>
  /\ result = StrResult(<<"'","/","w","/","x","'"," ","r","e","n","a","m","e","d","/","m","o","v","e","d"," ","t","o"," ","'","/","w","/","y","'"," ","s","u","c","c","e","s","s","f","u","l","l","y">>)
  /\ << <<"w">>, <<"y">> >> \in DOMAIN files
  /\ << <<"w">>, <<"x">> >> \notin DOMAIN files

\* cp with three arguments has copied the first to the second
C16_ThreeArgumentsCopied ==
  /\ command = <<"c","p"," ","/","w","/","x"," ","/","w","/","y"," ","/","w","/","z">>
  /\ result = StrResult(<<"F","i","l","e"," ","'","/","w","/","x","'"," ","c","o","p","i","e","d"," ","t","o"," ","'","/","w","/","y","'"," ","s","u","c","c","e","s","s","f","u","l","l","y">>)
  /\ << <<"w">>, <<"y">> >> \in DOMAIN files

(***************************************************************************)
(* C17: a history file that cannot be appended to                          *)
(***************************************************************************)

\* C17: when the history file cannot be opened, execute of a non-blank
\* command still appends the entry to self.history, prints the failure,
\* translates the command and calls its handler, and returns what the
\* handler returns: pwd the working directory, touch its confirmation with
\* the file created, history the entries in memory with the new one last.
\* The failure is in no result.
C17_SinkFailureDoesNotAbort ==
  [][(~SinkWritable /\ NonBlank(command'))
       => LET c == command'
              verb == TranslatedVerb(c)
              args == TranslatedArgs(c)
          IN  /\ Len(trace') >= 4
              /\ trace'[1].fn = "save_history" /\ trace'[1].text = c
              /\ trace'[2].fn = "safe_print"
              /\ StartsWith(trace'[2].text, <<"E","r","r","o","r"," ","s","a","v","i","n","g"," ","h","i","s","t","o","r","y",":"," ">>)
              /\ trace'[3].fn = "parse_nlp"
              /\ trace'[4].fn = "cmd_" \o
                   (CASE verb = <<"p","w","d">> -> "pwd"
                      [] verb = <<"t","o","u","c","h">> -> "touch"
                      [] verb = <<"h","i","s","t","o","r","y">> -> "history"
                      [] verb = <<"m","v">> -> "mv")
              /\ IF IsClear(c) THEN history' = <<>>
                 ELSE history' = Append(history, Entry(c, 0))
              /\ result'.kind = "str"
              /\ ~Contains(result'.text, <<"E","r","r","o","r"," ","s","a","v","i","n","g"," ","h","i","s","t","o","r","y">>)
              /\ verb = <<"p","w","d">> => result'.text = PathStr(cwd)
              /\ (verb = <<"t","o","u","c","h">> /\ Len(args) = 1)
                   => /\ result'.text = <<"F","i","l","e"," ","'">> \o TargetOf(c, 1)
                                          \o <<"'"," ","c","r","e","a","t","e","d"," ","s","u","c","c","e","s","s","f","u","l","l","y">>
                      /\ Comps(TargetOf(c, 1)) \in DOMAIN files'
              /\ (verb = <<"h","i","s","t","o","r","y">> /\ ~IsClear(c))
                   => result'.text = Join(history', NL)]_vars

\* the start directory has been renamed away from the history file, and pwd
\* is answered and logged in memory
C17_Witness ==
  /\ ~SinkWritable
  /\ command = <<"p","w","d">>
  /\ result = StrResult(<<"/","v">>)
  /\ Len(trace) = 4 /\ trace[2].fn = "safe_print"
  /\ history # <<>> /\ history[Len(history)] = Entry(<<"p","w","d">>, 0)
  /\ Len(history) = 2 /\ history[1] = Entry(<<"m","v"," ","/","w"," ","/","v">>, 0)

(***************************************************************************)
(* C18: requests of the HTTP front end on the one terminal                 *)
(***************************************************************************)

HttpInputs == { <<"p","w","d">>, <<"c","d"," ","/","h">>, <<"h","i","s","t","o","r","y"," ","-","c">> }

\* a thread enters execute_command with a command that is not blank
Receive(r) ==
  /\ inflight[r] = Idle
  /\ \E c \in HttpInputs : inflight' = [inflight EXCEPT ![r] = [pc |-> "append", cmd |-> c]]
  /\ UNCHANGED <<dirs, files, cwd, lost, history, available, command, result, trace>>

\* it appends the entry to self.history
MemoryStep(r) ==
  /\ inflight[r].pc = "append"
  /\ Len(history) < MaxHist
  /\ history' = AppendEntry(World, inflight[r].cmd, 0).history
  /\ trace' = AppendEntry(World, inflight[r].cmd, 0).trace
  /\ inflight' = [inflight EXCEPT ![r].pc = "write"]
  /\ UNCHANGED <<dirs, files, cwd, lost, available, command, result>>

\* it appends the entry to the history file
SinkStep(r) ==
  /\ inflight[r].pc = "write"
  /\ InBounds(WriteEntry(World, inflight[r].cmd, 0), MaxHist)
  /\ files' = WriteEntry(World, inflight[r].cmd, 0).files
  /\ trace' = WriteEntry(World, inflight[r].cmd, 0).trace
  /\ inflight' = [inflight EXCEPT ![r].pc = "chain"]
  /\ UNCHANGED <<dirs, cwd, lost, history, available, command, result>>

\* it translates, runs the handler and returns
ChainStep(r) ==
  /\ inflight[r].pc = "chain"
  /\ \E x \in {Chain(World, available, QuietEnv, inflight[r].cmd)} :
       /\ InBounds(x.w, MaxHist)
       /\ dirs' = x.w.dirs
       /\ files' = x.w.files
       /\ cwd' = x.w.cwd
       /\ lost' = x.w.lost
       /\ history' = x.w.history
       /\ command' = inflight[r].cmd
       /\ result' = x.out
       /\ trace' = x.w.trace
  /\ inflight' = [inflight EXCEPT ![r] = Idle]
  /\ UNCHANGED available

Serve(r) == Receive(r) \/ MemoryStep(r) \/ SinkStep(r) \/ ChainStep(r)

NextHttp == \E r \in Requests : Serve(r)

SpecHttp == InitWith({<<>>}, {FALSE}) /\ [][NextHttp]_vars

\* the three steps of a thread make up execute
StepsAreExecute ==
  \A c \in HttpInputs :
    Chain(WriteEntry(AppendEntry(World, c, 0), c, 0), available, QuietEnv, c)
      = execute(World, available, QuietEnv, c, 0)

\* the threads that are inside execute
Executing == {r \in Requests : inflight[r] # Idle}

\* C18: no two requests are inside execute at a time: each execute call
\* runs to its return before the next one begins.
C18_ExecutesNeverOverlap == Cardinality(Executing) <= 1

\* two requests inside execute have written their entries to the file in
\* the order opposite to that of self.history
C18_EntriesCrossed ==
  /\ Cardinality(Executing) = 2
  /\ Len(history) = 2
  /\ SinkText = history[2] \o NL \o history[1] \o NL
  /\ history[1] # history[2]

(***************************************************************************)
(* C19: where echo splits its text                                         *)
(***************************************************************************)

\* the text echo joins from the arguments of the command c, its operator,
\* and the two parts at the first occurrence of the operator
EchoLine(c) == Join(TranslatedArgs(c), <<" ">>)

EchoOp(c) == IF Contains(EchoLine(c), <<">", ">">>) THEN <<">", ">">> ELSE <<">">>

ContentPart(c) == Strip(Take(EchoLine(c), Find(EchoLine(c), EchoOp(c))))

TargetPart(c) ==
  Strip(Drop(EchoLine(c), Find(EchoLine(c), EchoOp(c)) + Len(EchoOp(c))))

TargetPath(c) == Comps(normalize_path(World, TargetPart(c)).text)

\* C19: echo with an operator in its text splits the text at the first
\* occurrence of the operator in two: what is before is the content, and
\* all that is after is the path of the file written, also when the
\* operator occurs again.
C19_SplitsAtFirstOperator ==
  [][(/\ TranslatedVerb(command') = <<"e","c","h","o">>
      /\ Contains(EchoLine(command'), <<">">>)
      /\ OpenErr(Saved(command'), TargetPath(command')) = EOK)
       => /\ TargetPath(command') \in DOMAIN files'
          /\ files'[TargetPath(command')]
               = (IF EchoOp(command') = <<">">> THEN <<>>
                  ELSE Previous(command', TargetPath(command')))
                 \o ContentPart(command') \o NL]_vars

\* it does so when the operator occurs once
C19_SplitsAtOnlyOperator ==
  [][(/\ TranslatedVerb(command') = <<"e","c","h","o">>
      /\ Contains(EchoLine(command'), <<">">>)
      /\ Len(SplitOn(EchoLine(command'), EchoOp(command'))) = 2
      /\ OpenErr(Saved(command'), TargetPath(command')) = EOK)
       => /\ TargetPath(command') \in DOMAIN files'
          /\ files'[TargetPath(command')]
               = (IF EchoOp(command') = <<">">> THEN <<>>
                  ELSE Previous(command', TargetPath(command')))
                 \o ContentPart(command') \o NL]_vars

\* echo a > b > c has written a to b: what follows the second operator is
\* in no path
C19_SecondOperatorDropped ==
  /\ command = <<"e","c","h","o"," ","a"," ",">"," ","b"," ",">"," ","c">>
  /\ result = StrResult(<<"T","e","x","t"," ","w","r","i","t","t","e","n"," ","t","o"," ","'","/","w","/","b","'"," ","s","u","c","c","e","s","s","f","u","l","l","y">>)
  /\ files[<< <<"w">>, <<"b">> >>] = <<"a">> \o NL
  /\ << <<"w">>, <<"b"," ",">"," ","c">> >> \notin DOMAIN files

(***************************************************************************)
(* C20: self.history and the lines of the history file                     *)
(***************************************************************************)

SinkInputs ==
  { <<"p","w","d">>, <<"p","w","d"," ">>, <<" "," ">>, <<"h","i","s","t","o","r","y"," ","-","c">>, <<"t","o","u","c","h"," ","t","e","r","m","i","n","a","l","_","h","i","s","t","o","r","y",".","t","x","t">>,
    <<"r","m"," ","t","e","r","m","i","n","a","l","_","h","i","s","t","o","r","y",".","t","x","t">>, <<"e","c","h","o"," ","x"," ",">",">"," ","t","e","r","m","i","n","a","l","_","h","i","s","t","o","r","y",".","t","x","t">>,
    <<"m","v"," ","/","w"," ","/","v">> }

NextSink == ExecuteIn(SinkInputs, {0}, MaxHist)

SpecSink == InitWith({<<>>}, {FALSE}) /\ [][NextSink]_vars

\* self.history is the lines of the history file, in order
Agree == history = ReadLines(SinkText)

\* the verbs whose handlers remove, rename or write what their arguments name
WritingVerbs == { <<"r","m">>, <<"r","m","d","i","r">>, <<"m","v">>, <<"c","p">>, <<"e","c","h","o">> }

\* the command c is one of those and names the history file or a directory
\* above it
TouchesSink(c) ==
  /\ TranslatedVerb(c) \in WritingVerbs
  /\ \E i \in DOMAIN TranslatedArgs(c) :
       IsPrefix(Comps(TargetOf(c, i)), HISTORY_FILE)

\* C20 as stated: self.history and the history file start empty, and every
\* execute whose append to the file succeeds, made when self.history equals
\* the lines of the file, leaves the two equal.
C20_MemoryIsSink ==
  [][(Agree /\ SinkWritable)
       => history' = ReadLines(IF HISTORY_FILE \in DOMAIN files'
                               THEN files'[HISTORY_FILE] ELSE <<>>)]_vars

\* C20: self.history and the history file start empty, and every execute
\* whose append to the file succeeds, made when self.history equals the
\* lines of the file, leaves the two equal, history -c included, unless the
\* command is rm, rmdir, mv, cp or echo aimed at the history file or at a
\* directory above it.
C20_MemoryIsSinkUnlessTouched ==
  [][(Agree /\ SinkWritable /\ ~TouchesSink(command'))
       => history' = ReadLines(IF HISTORY_FILE \in DOMAIN files'
                               THEN files'[HISTORY_FILE] ELSE <<>>)]_vars

\* two commands after a history -c, the second with a blank at its end:
\* the list and the file hold the same two entries
C20_Witness ==
  /\ command = <<"p","w","d"," ">>
  /\ history = << Entry(<<"t","o","u","c","h"," ","t","e","r","m","i","n","a","l","_","h","i","s","t","o","r","y",".","t","x","t">>, 0), Entry(<<"p","w","d"," ">>, 0) >>
  /\ SinkWritable
  /\ ReadLines(SinkText) = history

\* rm has removed the history file: the list holds the entry of the rm and
\* there is no file
C20_SinkRemoved ==
  /\ command = <<"r","m"," ","t","e","r","m","i","n","a","l","_","h","i","s","t","o","r","y",".","t","x","t">>
  /\ history # <<>>
  /\ HISTORY_FILE \notin DOMAIN files

====
